---------------------------- MODULE Spec2Model ----------------------------
(***************************************************************************)
(* A model of amazon_price_fetch: the search pipeline (SearchService),     *)
(* the validators, the parser's promotion of field-maps to Product         *)
(* records, the token-bucket rate limiter and the HTTP client.             *)
(*                                                                         *)
(* Several specifications share the variables; each one drives one part    *)
(* of the program and leaves the other parts' variables at their initial   *)
(* values:                                                                 *)
(*   Spec          SearchService.search_products, one run                  *)
(*   SpecValidate  the validators and build_search_url, and the run's      *)
(*                 first step, over a wide set of queries                  *)
(*   SpecParse     parse_search and to_product_models                      *)
(*   SpecLimiter   TokenBucketRateLimiter under concurrent callers         *)
(*   SpecHttp      HttpClient.get / head with the retrying adapter         *)
(***************************************************************************)
EXTENDS Integers, Sequences, FiniteSets, TLC

VARIABLES
    \* ---- SearchService.search_products (one run)
    pc,            \* "validate" | "loop" | "finalize" | "done"
    rawQuery,      \* the query argument as passed by the caller
    query,         \* the local `query` (normalised by validate_query)
    pages,         \* the pages argument
    max_pages,     \* config["search"]["max_pages"], NoMax when absent
    has_storage,   \* whether _get_storage returned a backend
    page,          \* the loop variable
    all_products,  \* List[Product]
    seen_asins,    \* set of identifiers
    metadata,      \* the SearchMetadata built at the end of the run
    result,        \* what the call handed to its caller
    served,        \* history: what the marketplace served for each page
    saveFailed,    \* history: some save_batch raised StorageError
    requestsSent,  \* history: HTTP requests made (each takes one token)
    storageWrites, \* history: save_batch calls that wrote the file
    built,         \* result of the last build_search_url call
    \* ---- parser
    html_in,       \* markup handed to parse_search (its containers)
    items_in,      \* field-maps handed to to_product_models
    parse_out,     \* result of parse_search
    models_out,    \* result of to_product_models
    parse_step,    \* "idle" | "parsed" | "promoted"
    \* ---- TokenBucketRateLimiter
    now,           \* time.time(), in ticks
    tokens,        \* self.tokens, in units of 1/TokenUnit token
    last_refill,   \* self.last_refill
    lock,          \* holder of self._lock, or Free
    lpc,           \* per thread: "idle" | "refill" | "check" | "deficit" | "sleep"
    call,          \* per thread: its call in progress or last made, [op, n]
    wake,          \* per thread: the time its time.sleep ends
    ret,           \* per thread: how its last call ended
    \* ---- HttpClient
    hpc,           \* "idle" | "rate_wait" | "send" | "done"
    method,        \* "GET" | "HEAD"
    retries_left,  \* what is left of Retry(total=max_retries) for this call
    response,      \* how the call ended
    wireRequests,  \* history: requests sent to the network
    tokensTaken,   \* history: tokens the client's wait() calls consumed
    callsMade,     \* history: get / head calls started
    req_url,       \* the url argument of the call
    last_reply,    \* history: the latest reply of the network to the call
    \* ---- rate compliance of the limiter
    granted,       \* history: tokens the limiter has granted
    mark,          \* history: a moment chosen to measure from: the time,
                   \* the tokens granted until then and last_refill then
    \* ---- utils/cache.py and HttpClient.get
    cache_files,        \* the cache directory: per key, the file's entry
    cfg_cache_enabled,  \* load_config()["http"]["cache_enabled"]
    self_cache_enabled, \* HttpClient.cache_enabled
    gpc,                \* position of the get call: "idle" | "request" | "done"
    get_call,           \* the arguments of the get call, [url, use_cache]
    get_ret,            \* how the get call ended
    get_trace,          \* history of the get call: what it read, sent, wrote
    lookup,             \* history of the last Cache.get call
    \* ---- entry points of a run and its price filters
    entry,         \* "library" | "cli" (before its checks) | "cli_ok"
    min_price,     \* the min_price filter, NoPrice when not given
    max_price,     \* the max_price filter, NoPrice when not given
    \* ---- build_search_url / extract_query_from_url as text
    url_args,      \* the arguments of build_search_url
    url_out,       \* the URL it returned, or UrlTextError
    url_query,     \* what extract_query_from_url returned for that URL
    url_step,      \* "idle" | "built" | "extracted"
    \* ---- pipeline/storage.py: one output file and the backend writing it
    st_file,            \* the file's rows, NoFile when it does not exist
    st_type,            \* "csv" | "json": the backend the path selects
    st_append,          \* self.append
    st_header_written,  \* self._header_written
    st_run,             \* all_products of the run that holds the backend
    st_saves,           \* history: save_batch calls made
    st_runs,            \* history: backends created for the file
    \* ---- config/loader.py
    DEFAULT_CONFIG,     \* the module's dict: per section, its setting now
    environ,            \* os.environ: per AMZ_* variable, its value or Unset
    file_config,        \* the config file: per section, its setting
    conf_ret,           \* the config the last load_config call returned
    conf_calls,         \* history: load_config calls made
    \* ---- Cache.get and Cache.set racing on one key
    rc_file,            \* the key's file: NoEntry, Truncated or an entry
    rc_pc,              \* position of the getter and of the setter
    rc_data,            \* the getter's `data`, as json.load gave it
    rc_ret,             \* what the getter's last get returned
    rc_pending,         \* the entry the setter is writing
    rc_orphan,          \* the setter's open file was unlinked meanwhile
    rc_last,            \* history: the entry of the last completed set
    rc_written,         \* history: the values sets have written
    rc_ops              \* history: get and set calls started

runVars == <<pc, rawQuery, query, pages, max_pages, has_storage, page,
             all_products, seen_asins, metadata, result, served, saveFailed,
             requestsSent, storageWrites, built>>
parseVars == <<html_in, items_in, parse_out, models_out, parse_step>>
limVars == <<now, tokens, last_refill, lock, lpc, call, wake, ret>>
httpVars == <<hpc, method, retries_left, response, wireRequests, tokensTaken,
              callsMade, req_url, last_reply>>
rateVars == <<granted, mark>>
\* the variables the specifications above the line of their own part leave
\* alone
cacheVars == <<cache_files, cfg_cache_enabled, self_cache_enabled, gpc,
               get_call, get_ret, get_trace, lookup>>
entryVars == <<entry, min_price, max_price>>
urlVars == <<url_args, url_out, url_query, url_step>>
storeVars == <<st_file, st_type, st_append, st_header_written, st_run,
               st_saves, st_runs>>
confVars == <<DEFAULT_CONFIG, environ, file_config, conf_ret, conf_calls>>
raceVars == <<rc_file, rc_pc, rc_data, rc_ret, rc_pending, rc_orphan, rc_last,
              rc_written, rc_ops>>
moreVars == <<storeVars, confVars, raceVars>>
extVars == <<rateVars, cacheVars, entryVars, urlVars, moreVars>>
vars == <<runVars, parseVars, limVars, httpVars, extVars>>

-----------------------------------------------------------------------------
(* Bounds of the model *)

\* the largest pages argument of a run
MaxPages == 3

\* the largest batch of field-maps / containers handed to the parser
MaxBatch == 2

\* the resolution of the token count: units per token (tokens is a float)
TokenUnit == 2

\* burst_capacity of the limiter, in tokens
BurstCapacity == 2

\* the clock stops advancing at this time
MaxTime == 4

\* the number of get / head calls a client makes
MaxCalls == 3

\* the longest query text handed to build_search_url
MaxText == 2

\* the number of save_batch calls made on the output file
MaxSaves == 3

\* the number of backends created, one after the other, for the output file
MaxRuns == 2

\* the number of load_config calls
MaxLoads == 3

\* the number of Cache.get and Cache.set calls racing on one key
MaxOps == 3

-----------------------------------------------------------------------------
(* Values *)

\* Python's None, for optional text values
NoneVal == "<None>"

\* Optional[int] = None for max_pages
NoMax == -1

\* `not v` is false: neither None nor the empty string
Truthy(v) == v # NoneVal /\ v # ""

RECURSIVE Flatten(_)
Flatten(ss) == IF ss = <<>> THEN <<>> ELSE Head(ss) \o Flatten(Tail(ss))

RECURSIVE SumSeq(_)
SumSeq(s) == IF s = <<>> THEN 0 ELSE Head(s) + SumSeq(Tail(s))

SeqsUpTo(S, n) == UNION {[1..k -> S] : k \in 0..n}

-----------------------------------------------------------------------------
(* utils/validators.py *)

\* the 200 of `len(query) > 200`
MaxQueryLen == 200

\* A query string is modelled by its shape: `lead` and `trail` count the
\* whitespace characters around a core of `core` characters that begins
\* and ends with a non-whitespace character (core = 0: the string holds
\* whitespace only, all of it counted in `lead`); `dangerous` says that the
\* core matches one of dangerous_patterns.
EmptyQuery == [lead |-> 0, core |-> 0, trail |-> 0, dangerous |-> FALSE]

QueryLen(q) == q.lead + q.core + q.trail

\* str.strip()
Strip(q) == IF q.core = 0 THEN EmptyQuery ELSE [q EXCEPT !.lead = 0, !.trail = 0]

\* re.search(pattern, query, re.IGNORECASE) for some pattern of the denylist
MatchesDangerous(q) == q.core > 0 /\ q.dangerous

\* a raised ValidationError
QueryError == [ok |-> FALSE, value |-> EmptyQuery]

\* validate_query that forgets to strip what it returns
validate_query_nostrip(q) ==
    IF QueryLen(q) = 0 THEN QueryError
    ELSE IF QueryLen(Strip(q)) = 0 THEN QueryError
    ELSE IF QueryLen(Strip(q)) > MaxQueryLen THEN QueryError
    ELSE IF MatchesDangerous(Strip(q)) THEN QueryError
    ELSE [ok |-> TRUE, value |-> q]

validate_query(q) ==
    IF QueryLen(q) = 0 THEN QueryError                      \* if not query
    ELSE LET s == Strip(q) IN                               \* query = query.strip()
         IF QueryLen(s) = 0 THEN QueryError                 \* if not query
         ELSE IF QueryLen(s) > MaxQueryLen THEN QueryError  \* len(query) > 200
         ELSE IF MatchesDangerous(s) THEN QueryError        \* denylist
         ELSE [ok |-> TRUE, value |-> s]

\* validate_pages: TRUE when it returns, FALSE when it raises ValidationError
validate_pages(p, maxp) ==
    IF p < 1 THEN FALSE
    ELSE IF (maxp # NoMax /\ maxp # 0) /\ p > maxp THEN FALSE
    ELSE TRUE

\* Optional[float] = None for a price
NoPrice == -99

\* validate_price_range(min_price, max_price): TRUE when it returns, FALSE
\* when it raises ValidationError
validate_price_range(lo, hi) ==
    /\ ~(lo # NoPrice /\ lo < 0)
    /\ ~(hi # NoPrice /\ hi < 0)
    /\ ~(lo # NoPrice /\ hi # NoPrice /\ lo > hi)

-----------------------------------------------------------------------------
(* pipeline/url_builder.py *)

\* build_search_url raised ValidationError
UrlError == [ok |-> FALSE, k |-> EmptyQuery, page |-> 0]

\* the URL is modelled by its parameters
build_search_url(q, pg) ==
    LET v == validate_query(q) IN
    IF ~v.ok THEN UrlError
    ELSE [ok |-> TRUE, k |-> v.value, page |-> pg]

-----------------------------------------------------------------------------
(* parse/amazon_search_parser.py, parse/base_parser.py *)

\* AmazonSearchParser.base_url (its default)
BaseUrl == "https://www.amazon.com"

\* select_one(selector) found no element
NoMatch == "<no element>"

\* A result container is modelled by what its selectors find:
\*   titles    for each selector of ALTERNATIVE_SELECTORS["title"], NoMatch or
\*             the text of the element it selects (get_text(strip=True))
\*   href      the href of "h2 a", NoneVal when there is none
\*   data_asin the data-asin attribute, NoneVal when absent
\*   images    for each selector of ALTERNATIVE_SELECTORS["image"], NoMatch or
\*             the element's `src or data-src` (NoneVal when it has neither)
\* hrefs that are absolute URLs
AbsoluteHrefs == {"https://www.amazon.com/dp/A"}

\* urljoin(base_url, href)
urljoin(base, href) == IF href \in AbsoluteHrefs THEN href ELSE base \o href

\* re.search(r"/([A-Z0-9]{10})(?:[/?]|$)", href): the identifier, written
\* "A", "B" here, or NoneVal when the pattern does not match
HrefAsin(href) ==
    CASE href \in {"/dp/A", "https://www.amazon.com/dp/A"} -> "A"
      [] href = "/dp/B" -> "B"
      [] OTHER -> NoneVal

_extract_title(element) ==
    IF \E i \in 1..Len(element.titles) : element.titles[i] # NoMatch
    THEN LET i == CHOOSE k \in 1..Len(element.titles) :
                    /\ element.titles[k] # NoMatch
                    /\ \A j \in 1..(k-1) : element.titles[j] = NoMatch
         IN element.titles[i]
    ELSE NoneVal

_extract_url(element) ==
    IF Truthy(element.href) THEN urljoin(BaseUrl, element.href) ELSE NoneVal

_extract_asin(element) ==
    IF Truthy(element.data_asin) THEN element.data_asin
    ELSE IF Truthy(element.href) THEN HrefAsin(element.href)
    ELSE NoneVal

_extract_image(element) ==
    IF \E i \in 1..Len(element.images) :
          element.images[i] # NoMatch /\ Truthy(element.images[i])
    THEN LET i == CHOOSE k \in 1..Len(element.images) :
                    /\ element.images[k] # NoMatch /\ Truthy(element.images[k])
                    /\ \A j \in 1..(k-1) :
                          ~(element.images[j] # NoMatch /\ Truthy(element.images[j]))
         IN element.images[i]
    ELSE NoneVal

\* a field-map (the dictionary built by _parse_product_element); a key that
\* is absent reads as NoneVal, as item.get(key) does
FieldMap(t, u, a, i) == [title |-> t, url |-> u, asin_code |-> a, image_url |-> i]

\* _parse_product_element returned None
NoMap == FieldMap(NoneVal, NoneVal, NoneVal, NoneVal)

_parse_product_element(element) ==
    LET title == _extract_title(element)
        url == _extract_url(element)
        asin_code == _extract_asin(element)
        image_url == _extract_image(element)
    IN IF ~(Truthy(title) /\ Truthy(url) /\ Truthy(asin_code) /\ Truthy(image_url))
       THEN NoMap
       ELSE FieldMap(title, url, asin_code, image_url)

\* parse_search: the maps of the containers, in order, without those for
\* which _parse_product_element returned None
RECURSIVE parse_search(_)
parse_search(html) ==
    IF html = <<>> THEN <<>>
    ELSE LET product_data == _parse_product_element(Head(html)) IN
         IF product_data # NoMap
         THEN <<product_data>> \o parse_search(Tail(html))
         ELSE parse_search(Tail(html))

\* the required-field check of to_product_models on one item
MissingRequired(item) ==
    \/ ~Truthy(item.title)
    \/ ~Truthy(item.url)
    \/ ~Truthy(item.asin_code)
    \/ ~Truthy(item.image_url)

\* Product(title=..., url=..., asin_code=..., image_url=...)
Product(item) == [title |-> item.title, url |-> item.url,
                  asin_code |-> item.asin_code, image_url |-> item.image_url]

\* to_product_models raised ParseError
ModelsError == [ok |-> FALSE, products |-> <<>>]

\* to_product_models that builds a Product from every item, unchecked
to_product_models_unchecked(items) ==
    [ok |-> TRUE, products |-> [i \in 1..Len(items) |-> Product(items[i])]]

\* to_product_models: the first item that lacks a required field raises
\* ParseError out of the loop, and the products built so far are dropped
to_product_models(items) ==
    IF \E i \in 1..Len(items) : MissingRequired(items[i])
    THEN ModelsError
    ELSE [ok |-> TRUE, products |-> [i \in 1..Len(items) |-> Product(items[i])]]

-----------------------------------------------------------------------------
(* Inputs *)

Container(titles, href, data_asin, images) ==
    [titles |-> titles, href |-> href, data_asin |-> data_asin, images |-> images]

\* the listing a run's pages are cut from, in rank order: two listings of
\* identifier A that differ in their title, with one of identifier B between
RunListing ==
    << Container(<<"t1", NoMatch>>, "/dp/A", "A", <<"img", NoMatch>>),
       Container(<<"t1", NoMatch>>, "/dp/B", "B", <<"img", NoMatch>>),
       Container(<<"t2", NoMatch>>, "/dp/A", "A", <<"img", NoMatch>>) >>

\* the markup of a page a run is served: no, one or two containers of the
\* listing, in rank order
RunHtmls ==
    {<<>>}
    \cup {<<RunListing[i]>> : i \in 1..Len(RunListing)}
    \cup {<<RunListing[ij[1]], RunListing[ij[2]]>> :
             ij \in {x \in (1..Len(RunListing)) \X (1..Len(RunListing)) :
                        x[1] < x[2]}}

\* "wireless mouse" with a leading blank, and its stripped form
PaddedQuery == [lead |-> 1, core |-> 14, trail |-> 0, dangerous |-> FALSE]

\* the queries of the runs of Spec: a valid one and an empty one
RunQueries == {PaddedQuery, EmptyQuery}

\* the queries of SpecValidate: every shape around the length limit
Queries ==
    { q \in [lead : 0..1, core : {0, 1, 14, 199, 200, 201}, trail : 0..1,
             dangerous : BOOLEAN] :
        /\ q.dangerous => q.core >= 7
        /\ q.core = 0 => q.trail = 0 }

-----------------------------------------------------------------------------
(* pipeline/search_service.py: SearchService.search_products *)

\* metadata before the run has built it
NoMetadata == [built |-> FALSE, query |-> EmptyQuery, pages_scraped |-> 0,
               total_results |-> 0, unique_products |-> 0]

\* the call has not ended yet
Pending == [kind |-> "pending", products |-> <<>>]

\* what the marketplace can serve for a page: a FetchError out of
\* http_client.get, markup that makes parse_search raise ParseError, or
\* markup with some result containers
Outcome(kind, html) == [kind |-> kind, html |-> html]

\* _search_page after build_search_url: fetch, parse, promote; any
\* exception is caught and the page yields []
_search_page(outcome) ==
    IF outcome.kind # "ok" THEN <<>>
    ELSE LET products == to_product_models(parse_search(outcome.html)) IN
         IF products.ok THEN products.products ELSE <<>>

\* the deduplication loop with the seen set fixed at its value before the page
RECURSIVE DedupeStale(_, _, _)
DedupeStale(page_products, seen, unique) ==
    IF page_products = <<>> THEN [seen |-> seen, unique |-> unique]
    ELSE LET product == Head(page_products) IN
         IF product.asin_code \notin seen
         THEN LET r == DedupeStale(Tail(page_products), seen, Append(unique, product))
              IN [r EXCEPT !.seen = r.seen \cup {product.asin_code}]
         ELSE DedupeStale(Tail(page_products), seen, unique)

\* the deduplication loop with the test against the seen set left out
DedupeKeepAll(page_products, seen, unique) ==
    [seen |-> seen \cup {page_products[i].asin_code : i \in 1..Len(page_products)},
     unique |-> unique \o page_products]

\* the deduplication loop of search_products (lines 126-130)
RECURSIVE Dedupe(_, _, _)
Dedupe(page_products, seen, unique) ==
    IF page_products = <<>> THEN [seen |-> seen, unique |-> unique]
    ELSE LET product == Head(page_products) IN
         IF product.asin_code \notin seen
         THEN Dedupe(Tail(page_products), seen \cup {product.asin_code},
                     Append(unique, product))
         ELSE Dedupe(Tail(page_products), seen, unique)

\* SearchMetadata with pages_scraped taken from the wrong counter
SearchMetadataWrongPages(q, p, products, seen) ==
    [built |-> TRUE, query |-> q, pages_scraped |-> Len(products),
     total_results |-> Len(products), unique_products |-> Cardinality(seen)]

\* SearchMetadata(...) as built at lines 153-159
SearchMetadata(q, p, products, seen) ==
    [built |-> TRUE, query |-> q, pages_scraped |-> p,
     total_results |-> Len(products), unique_products |-> Cardinality(seen)]

\* lines 106-119: validation, storage set-up, empty collections
Validate ==
    /\ pc = "validate"
    /\ LET v == validate_query(rawQuery) IN
       IF v.ok /\ validate_pages(pages, max_pages)
       THEN /\ query' = v.value
            /\ page' = 1
            /\ pc' = "loop"
            /\ result' = result
       ELSE /\ result' = [kind |-> "ValidationError", products |-> <<>>]
            /\ pc' = "done"
            /\ UNCHANGED <<query, page>>
    /\ UNCHANGED <<rawQuery, pages, max_pages, has_storage, all_products,
                   seen_asins, metadata, served, saveFailed, requestsSent,
                   storageWrites, built>>
    /\ UNCHANGED <<parseVars, limVars, httpVars, extVars>>

\* one iteration of the page loop (lines 121-149)
SearchPage ==
    /\ pc = "loop"
    /\ page <= pages
    /\ \E outcome \in
            {Outcome("FetchError", <<>>), Outcome("ParseError", <<>>)}
            \cup {Outcome("ok", h) : h \in RunHtmls} :
       \E save_raises \in BOOLEAN :
         LET url == build_search_url(query, page)
             page_products == IF url.ok THEN _search_page(outcome) ELSE <<>>
             d == Dedupe(page_products, seen_asins, <<>>)
             saving == d.unique # <<>> /\ has_storage
         IN /\ save_raises => saving
            /\ built' = url
            /\ served' = Append(served, outcome)
            /\ requestsSent' = IF url.ok THEN requestsSent + 1 ELSE requestsSent
            /\ seen_asins' = d.seen
            /\ all_products' = all_products \o d.unique
            /\ storageWrites' = IF saving /\ ~save_raises
                                THEN storageWrites + 1 ELSE storageWrites
            \* a StorageError out of save_batch is caught by the loop's
            \* `except Exception` (line 146) and the loop continues
            /\ saveFailed' = (saveFailed \/ save_raises)
    /\ page' = page + 1
    /\ UNCHANGED <<pc, rawQuery, query, pages, max_pages, has_storage, metadata,
                   result>>
    /\ UNCHANGED <<parseVars, limVars, httpVars, extVars>>

\* the end of the run taken before the loop has gone through every page
FinalizeEarly ==
    /\ pc = "loop"
    /\ metadata' = SearchMetadata(query, pages, all_products, seen_asins)
    /\ result' = [kind |-> "List[Product]", products |-> all_products]
    /\ pc' = "done"
    /\ UNCHANGED <<rawQuery, query, pages, max_pages, has_storage, page,
                   all_products, seen_asins, served, saveFailed, requestsSent,
                   storageWrites, built>>
    /\ UNCHANGED <<parseVars, limVars, httpVars, extVars>>

\* lines 151-166: the metadata is built and the list of products returned
Finalize ==
    /\ pc = "loop"
    /\ page > pages
    /\ metadata' = SearchMetadata(query, pages, all_products, seen_asins)
    /\ result' = [kind |-> "List[Product]", products |-> all_products]
    /\ pc' = "done"
    /\ UNCHANGED <<rawQuery, query, pages, max_pages, has_storage, page,
                   all_products, seen_asins, served, saveFailed, requestsSent,
                   storageWrites, built>>
    /\ UNCHANGED <<parseVars, limVars, httpVars, extVars>>

\* a direct call of build_search_url by a caller
BuildSearchUrl ==
    /\ pc = "validate"
    /\ \E pg \in 1..2 : built' = build_search_url(rawQuery, pg)
    /\ UNCHANGED <<pc, rawQuery, query, pages, max_pages, has_storage, page,
                   all_products, seen_asins, metadata, result, served,
                   saveFailed, requestsSent, storageWrites>>
    /\ UNCHANGED <<parseVars, limVars, httpVars, extVars>>

-----------------------------------------------------------------------------
(* The parser on its own: parse_search, then to_product_models, as
   _search_page calls them (lines 200-203), and to_product_models on any
   batch of field-maps *)

\* containers with every way of lacking a required field
ParseElements ==
    { Container(t, h, a, i) :
        t \in {<<"t1", NoMatch>>, <<NoMatch, NoMatch>>, <<"", "t2">>},
        h \in {"/dp/A", NoneVal},
        a \in {"B", ""},
        i \in {<<"img", NoMatch>>, <<NoMatch, NoMatch>>, <<"", "img2">>,
                <<"/images/I/1.jpg", NoMatch>>,
                <<"https://m.media-amazon.com/images/I/1.jpg", NoMatch>>} }

\* field-maps with every way of lacking a required field
FieldMaps ==
    { FieldMap(t, u, a, i) :
        t \in {"t1", "", NoneVal},
        u \in {"u", NoneVal},
        a \in {"A", "", NoneVal},
        i \in {"i", NoneVal} }

ParseSearch ==
    /\ parse_step = "idle"
    /\ \E html \in SeqsUpTo(ParseElements, MaxBatch) :
         /\ html_in' = html
         /\ parse_out' = parse_search(html)
    /\ items_in' = <<>>
    /\ models_out' = [ok |-> TRUE, products |-> <<>>]
    /\ parse_step' = "parsed"
    /\ UNCHANGED <<runVars, limVars, httpVars, extVars>>

PromoteParsed ==
    /\ parse_step = "parsed"
    /\ items_in' = parse_out
    /\ models_out' = to_product_models(parse_out)
    /\ parse_step' = "promoted"
    /\ UNCHANGED <<html_in, parse_out>>
    /\ UNCHANGED <<runVars, limVars, httpVars, extVars>>

ToProductModels ==
    /\ parse_step = "idle"
    /\ \E items \in SeqsUpTo(FieldMaps, MaxBatch) :
         /\ items_in' = items
         /\ models_out' = to_product_models(items)
    /\ html_in' = <<>>
    /\ parse_out' = <<>>
    /\ parse_step' = "promoted"
    /\ UNCHANGED <<runVars, limVars, httpVars, extVars>>

-----------------------------------------------------------------------------
(* fetch/rate_limiter.py: TokenBucketRateLimiter

   Time is counted in ticks, one tick being the time in which the bucket
   gains one unit (1/TokenUnit token) at rate_per_second; time.time() never
   runs backwards.  The with-blocks of acquire, wait and get_wait_time run
   under self._lock; each is modelled in two steps, the refill and the
   check, so that the read wait() makes of self.tokens after it has left
   its with-block (line 84) can fall between them. *)

\* the callers sharing one limiter
Threads == {"t1", "t2"}

\* self._lock is not held
Free == "<free>"

\* float(self.burst_capacity), in units
Capacity == BurstCapacity * TokenUnit

\* the 0.1 s added to the sleep (line 88), rounded up to the clock's tick
MarginTicks == 1

\* the numbers of tokens callers ask for: one, the whole burst, and more
\* than the burst
Requests == {1, BurstCapacity, BurstCapacity + 1}

Min(a, b) == IF a <= b THEN a ELSE b

\* _refill_tokens without the cap at burst_capacity
RefilledUncapped(tok, elapsed) == tok + elapsed

\* _refill_tokens crediting twice the elapsed time
RefilledTwice(tok, elapsed) == Min(tok + 2 * elapsed, Capacity)

\* _refill_tokens: min(self.tokens + elapsed * rate_per_second, burst_capacity)
Refilled(tok, elapsed) == Min(tok + elapsed, Capacity)

\* wait without its test of the request against burst_capacity
LimBeginUnchecked(t, op, n) ==
    /\ lpc[t] = "idle"
    /\ lock = Free
    /\ lock' = t
    /\ lpc' = [lpc EXCEPT ![t] = "refill"]
    /\ call' = [call EXCEPT ![t] = [op |-> op, n |-> n]]
    /\ ret' = [ret EXCEPT ![t] = "none"]
    /\ UNCHANGED <<now, tokens, last_refill, wake>>

\* a caller enters acquire, wait or get_wait_time; wait raises
\* RateLimitExceeded at once when asked for more than the capacity, and
\* otherwise the caller takes the lock
LimBegin(t, op, n) ==
    /\ lpc[t] = "idle"
    /\ IF op = "wait" /\ n > BurstCapacity
       THEN /\ ret' = [ret EXCEPT ![t] = "RateLimitExceeded"]
            /\ call' = [call EXCEPT ![t] = [op |-> op, n |-> n]]
            /\ UNCHANGED <<lock, lpc>>
       ELSE /\ lock = Free
            /\ lock' = t
            /\ lpc' = [lpc EXCEPT ![t] = "refill"]
            /\ call' = [call EXCEPT ![t] = [op |-> op, n |-> n]]
            /\ ret' = [ret EXCEPT ![t] = "none"]
    /\ UNCHANGED <<now, tokens, last_refill, wake>>

\* self._refill_tokens(), under the lock
LimRefill(t) ==
    /\ lpc[t] = "refill"
    /\ tokens' = Refilled(tokens, now - last_refill)
    /\ last_refill' = now
    /\ lpc' = [lpc EXCEPT ![t] = "check"]
    /\ UNCHANGED <<now, lock, call, wake, ret>>

\* `if self.tokens >= tokens`, and the end of the with-block
LimCheck(t) ==
    /\ lpc[t] = "check"
    /\ LET need == call[t].n * TokenUnit IN
       CASE call[t].op = "acquire" ->
              /\ tokens' = IF tokens >= need THEN tokens - need ELSE tokens
              /\ ret' = [ret EXCEPT ![t] = IF tokens >= need THEN "True" ELSE "False"]
              /\ lpc' = [lpc EXCEPT ![t] = "idle"]
         [] call[t].op = "wait" ->
              IF tokens >= need
              THEN /\ tokens' = tokens - need
                   /\ ret' = [ret EXCEPT ![t] = "returned"]
                   /\ lpc' = [lpc EXCEPT ![t] = "idle"]
              ELSE /\ lpc' = [lpc EXCEPT ![t] = "deficit"]
                   /\ UNCHANGED <<tokens, ret>>
         [] call[t].op = "get_wait_time" ->
              /\ ret' = [ret EXCEPT ![t] = "wait_time"]
              /\ lpc' = [lpc EXCEPT ![t] = "idle"]
              /\ UNCHANGED tokens
    /\ lock' = Free
    /\ UNCHANGED <<now, last_refill, call, wake>>

\* lines 84-88, outside the lock: the deficit is computed from self.tokens
\* as it is now, and time.sleep raises ValueError for a negative length
LimDeficit(t) ==
    /\ lpc[t] = "deficit"
    /\ LET deficit == call[t].n * TokenUnit - tokens IN
       IF deficit < 0
       THEN /\ ret' = [ret EXCEPT ![t] = "ValueError"]
            /\ lpc' = [lpc EXCEPT ![t] = "idle"]
            /\ UNCHANGED wake
       ELSE /\ wake' = [wake EXCEPT ![t] = now + deficit + MarginTicks]
            /\ lpc' = [lpc EXCEPT ![t] = "sleep"]
            /\ UNCHANGED ret
    /\ UNCHANGED <<now, tokens, last_refill, lock, call>>

\* the sleep is over and the loop takes the lock again
LimWake(t) ==
    /\ lpc[t] = "sleep"
    /\ now >= wake[t]
    /\ lock = Free
    /\ lock' = t
    /\ lpc' = [lpc EXCEPT ![t] = "refill"]
    /\ wake' = [wake EXCEPT ![t] = 0]
    /\ UNCHANGED <<now, tokens, last_refill, call, ret>>

LimTick ==
    /\ now < MaxTime
    /\ now' = now + 1
    /\ UNCHANGED <<tokens, last_refill, lock, lpc, call, wake, ret>>

Begin ==
    /\ \E t \in Threads, op \in {"acquire", "wait", "get_wait_time"}, n \in Requests :
          LimBegin(t, op, n)
    /\ UNCHANGED <<runVars, parseVars, httpVars, extVars>>

Refill ==
    /\ \E t \in Threads : LimRefill(t)
    /\ UNCHANGED <<runVars, parseVars, httpVars, extVars>>

Check ==
    /\ \E t \in Threads : LimCheck(t)
    /\ UNCHANGED <<runVars, parseVars, httpVars, extVars>>

Deficit ==
    /\ \E t \in Threads : LimDeficit(t)
    /\ UNCHANGED <<runVars, parseVars, httpVars, extVars>>

Wake ==
    /\ \E t \in Threads : LimWake(t)
    /\ UNCHANGED <<runVars, parseVars, httpVars, extVars>>

Tick ==
    /\ LimTick
    /\ UNCHANGED <<runVars, parseVars, httpVars, extVars>>

-----------------------------------------------------------------------------
(* fetch/http_client.py: HttpClient.get / head, _make_request, and the
   session's adapter with Retry(total=max_retries, status_forcelist=...,
   allowed_methods=["GET", "HEAD"]) *)

\* the thread of the client
Client == "t1"

\* the urls asked for
Urls == {"u1", "u2"}

\* max_retries (its default)
MaxRetries == 3

\* status_forcelist
StatusForcelist == {429, 500, 502, 503, 504}

\* no status code (None)
NoStatus == 0

\* what the network answers to one request
Reply(err, status) == [err |-> err, status |-> status]

Replies == {Reply("none", 200), Reply("none", 404), Reply("none", 503),
            Reply("Timeout", NoStatus), Reply("ConnectionError", NoStatus)}

\* the adapter sends the request again: a status of the forcelist, or a
\* connection or read failure of an idempotent request
Retryable(reply) == reply.err # "none" \/ reply.status \in StatusForcelist

\* bool(response) of a requests.Response is response.ok: false for a
\* status of 400 and above
ResponseTruthy(status) == status < 400

\* `e.response.status_code if e.response else None` (line 136)
HttpErrorStatus(status) == IF ResponseTruthy(status) THEN status ELSE NoStatus

\* FetchError(message, status_code=..., url=...)
FetchError(why, status_code, url) ==
    [kind |-> "FetchError", why |-> why, status_code |-> status_code, url |-> url]

\* how _make_request ends on the last reply
Ended(reply) ==
    CASE reply.err = "Timeout" -> FetchError("timeout", NoStatus, req_url)
      [] reply.err = "ConnectionError" -> FetchError("connection", NoStatus, req_url)
      [] reply.status \in StatusForcelist -> FetchError("request", NoStatus, req_url)
      [] reply.status >= 400 -> FetchError("http", HttpErrorStatus(reply.status), req_url)
      [] OTHER -> [kind |-> "Response", why |-> "ok", status_code |-> reply.status,
                   url |-> req_url]

NoResponse == [kind |-> "none", why |-> "none", status_code |-> NoStatus,
               url |-> NoneVal]

\* no reply yet
NoReply == Reply("none", NoStatus)

\* get or head is called: _make_request starts with self.rate_limiter.wait()
HttpCall ==
    /\ hpc \in {"idle", "done"}
    /\ callsMade < MaxCalls
    /\ \E m \in {"GET", "HEAD"} : method' = m
    /\ \E u \in Urls : req_url' = u
    /\ last_reply' = NoReply
    /\ LimBegin(Client, "wait", 1)
    /\ hpc' = "rate_wait"
    /\ callsMade' = callsMade + 1
    /\ response' = NoResponse
    /\ UNCHANGED <<retries_left, wireRequests, tokensTaken>>
    /\ UNCHANGED <<runVars, parseVars, extVars>>

\* wait() has returned with its token
HttpWaited ==
    /\ hpc = "rate_wait"
    /\ lpc[Client] = "idle"
    /\ ret[Client] = "returned"
    /\ tokensTaken' = tokensTaken + 1
    /\ retries_left' = MaxRetries
    /\ hpc' = "send"
    /\ UNCHANGED <<method, response, wireRequests, callsMade, req_url, last_reply>>
    /\ UNCHANGED <<runVars, parseVars, limVars, extVars>>

\* self.session.request(...): the adapter puts one request on the wire and,
\* while retries are left, answers a retryable reply by sending it again
HttpSend ==
    /\ hpc = "send"
    /\ wireRequests' = wireRequests + 1
    /\ \E reply \in Replies :
         /\ last_reply' = reply
         /\ IF Retryable(reply) /\ retries_left > 0
            THEN /\ retries_left' = retries_left - 1
                 /\ UNCHANGED <<hpc, response>>
            ELSE /\ response' = Ended(reply)
                 /\ hpc' = "done"
                 /\ UNCHANGED retries_left
    /\ UNCHANGED <<method, tokensTaken, callsMade, req_url>>
    /\ UNCHANGED <<runVars, parseVars, limVars, extVars>>

\* the steps of the client's wait() inside the limiter
HttpLimiter ==
    /\ hpc = "rate_wait"
    /\ \/ LimRefill(Client)
       \/ LimCheck(Client)
       \/ LimDeficit(Client)
       \/ LimWake(Client)
    /\ UNCHANGED <<runVars, parseVars, httpVars, extVars>>

-----------------------------------------------------------------------------
(* utils/cache.py: Cache.get / Cache.set over the files of the cache
   directory, get_cached / set_cached, and HttpClient.get.  Times are the
   ticks of `now`. *)

\* Cache.ttl, in ticks
CacheTtl == 2

\* no file for the key
NoEntry == [timestamp |-> -1, value |-> NoneVal]

\* the file json.dump writes: {"timestamp": ..., "value": ...}
Entry(t, value) == [timestamp |-> t, value |-> value]

\* Cache.get without its TTL check
Cache_get_unchecked(files, key, t) ==
    [value |-> files[key].value, files |-> files]

\* Cache.get(key) at time t: the value returned and the files left
Cache_get(files, key, t) ==
    IF files[key] = NoEntry
    THEN [value |-> NoneVal, files |-> files]
    ELSE IF t - files[key].timestamp > CacheTtl
         THEN [value |-> NoneVal, files |-> [files EXCEPT ![key] = NoEntry]]
         ELSE [value |-> files[key].value, files |-> files]

\* Cache.set(key, value) at time t
Cache_set(files, key, value, t) == [files EXCEPT ![key] = Entry(t, value)]

\* get_cached(url): None without touching the cache unless the loaded
\* configuration enables caching
get_cached(files, url, t) ==
    IF ~cfg_cache_enabled
    THEN [value |-> NoneVal, files |-> files, read |-> FALSE]
    ELSE [value |-> Cache_get(files, url, t).value,
          files |-> Cache_get(files, url, t).files,
          read |-> TRUE]

\* set_cached(url, html): nothing unless the loaded configuration enables
\* caching
set_cached(files, url, html, t) ==
    IF ~cfg_cache_enabled
    THEN [files |-> files, wrote |-> FALSE]
    ELSE [files |-> Cache_set(files, url, html, t), wrote |-> TRUE]

\* what the marketplace serves for a url requested with the query
\* parameters params, NoneVal when there are none
ServerText(url, params) ==
    "html of " \o url \o (IF params = NoneVal THEN "" ELSE "?" \o params)

\* cache_enabled = use_cache if use_cache is not None else self.cache_enabled
CacheEnabledFor(c) ==
    IF c.use_cache # NoneVal THEN c.use_cache = "True" ELSE self_cache_enabled

NoGet == [kind |-> "none", text |-> NoneVal]

NoTrace == [at |-> 0, before |-> NoEntry, read |-> FALSE, wrote |-> FALSE,
            requests |-> 0, tokens |-> 0, after |-> NoEntry]

NoLookup == [key |-> "u1", before |-> NoEntry, at |-> 0, value |-> NoneVal,
             after |-> NoEntry]

\* HttpClient.get(url, params, use_cache=...): the cache is consulted first
\* (lines 167-172); a hit returns the cached text
Get ==
    /\ gpc \in {"idle", "done"}
    /\ \E url \in Urls, params \in {NoneVal, "p=1"}, uc \in {NoneVal, "True", "False"} :
         LET c == [url |-> url, params |-> params, use_cache |-> uc]
             got == get_cached(cache_files, url, now)
             base == [NoTrace EXCEPT !.at = now, !.before = cache_files[url]]
         IN /\ get_call' = c
            /\ IF CacheEnabledFor(c)
               THEN /\ cache_files' = got.files
                    /\ get_trace' = [base EXCEPT !.read = got.read,
                                                 !.after = got.files[url]]
                    /\ IF got.value # NoneVal
                       THEN /\ get_ret' = [kind |-> "text", text |-> got.value]
                            /\ gpc' = "done"
                       ELSE /\ get_ret' = NoGet
                            /\ gpc' = "request"
               ELSE /\ get_trace' = [base EXCEPT !.after = cache_files[url]]
                    /\ get_ret' = NoGet
                    /\ gpc' = "request"
                    /\ UNCHANGED cache_files
    /\ UNCHANGED <<cfg_cache_enabled, self_cache_enabled, lookup>>
    /\ UNCHANGED <<runVars, parseVars, limVars, httpVars, rateVars, entryVars, urlVars, moreVars>>

\* the rest of get: _make_request (one token, the request) and, when it
\* succeeded and caching is on for the call, set_cached (lines 175-182)
GetRequest ==
    /\ gpc = "request"
    /\ \E ok \in BOOLEAN :
         LET url == get_call.url
             sent == [get_trace EXCEPT !.requests = 1, !.tokens = 1]
             content == ServerText(url, get_call.params)
             put == set_cached(cache_files, url, content, now)
         IN IF ~ok
            THEN /\ get_ret' = [kind |-> "FetchError", text |-> NoneVal]
                 /\ get_trace' = sent
                 /\ UNCHANGED cache_files
            ELSE /\ get_ret' = [kind |-> "text", text |-> content]
                 /\ IF CacheEnabledFor(get_call)
                    THEN /\ cache_files' = put.files
                         /\ get_trace' = [sent EXCEPT !.wrote = put.wrote,
                                                      !.after = put.files[url]]
                    ELSE /\ get_trace' = sent
                         /\ UNCHANGED cache_files
    /\ gpc' = "done"
    /\ UNCHANGED <<cfg_cache_enabled, self_cache_enabled, get_call, lookup>>
    /\ UNCHANGED <<runVars, parseVars, limVars, httpVars, rateVars, entryVars, urlVars, moreVars>>

\* a direct call of Cache.get(key)
CacheGet ==
    /\ \E key \in Urls :
         LET got == Cache_get(cache_files, key, now)
         IN /\ cache_files' = got.files
            /\ lookup' = [key |-> key, before |-> cache_files[key], at |-> now,
                          value |-> got.value, after |-> got.files[key]]
    /\ UNCHANGED <<cfg_cache_enabled, self_cache_enabled, gpc, get_call,
                   get_ret, get_trace>>
    /\ UNCHANGED <<runVars, parseVars, limVars, httpVars, rateVars, entryVars, urlVars, moreVars>>

\* a direct call of Cache.set(key, value)
CacheSet ==
    /\ \E key \in Urls :
         cache_files' = Cache_set(cache_files, key, ServerText(key, NoneVal), now)
    /\ UNCHANGED <<cfg_cache_enabled, self_cache_enabled, gpc, get_call,
                   get_ret, get_trace, lookup>>
    /\ UNCHANGED <<runVars, parseVars, limVars, httpVars, rateVars, entryVars, urlVars, moreVars>>

-----------------------------------------------------------------------------
(* pipeline/url_builder.py at the level of the URL's text.  A text is a
   sequence of tokens: single characters, and whole words (parameter names,
   fixed codes, the scheme and host) that contain no character with a
   meaning in a URL. *)

\* a filter that is not in **filters
Absent == <<"<absent>">>

\* urllib.parse.quote(c, safe=""): the percent-encoding of one character
QuoteChar(c) ==
    CASE c = " " -> <<"%", "2", "0">>
      [] c = "#" -> <<"%", "2", "3">>
      [] c = "%" -> <<"%", "2", "5">>
      [] c = "&" -> <<"%", "2", "6">>
      [] c = "+" -> <<"%", "2", "B">>
      [] c = ":" -> <<"%", "3", "A">>
      [] c = "=" -> <<"%", "3", "D">>
      [] c = "?" -> <<"%", "3", "F">>
      [] OTHER -> <<c>>

\* quote that leaves every character as it is
QuoteNothing(text) == text

\* urllib.parse.quote(text, safe="")
quote(text) == Flatten([i \in 1..Len(text) |-> QuoteChar(text[i])])

\* the character a %XY escape stands for
Unhex(x, y) ==
    CASE <<x, y>> = <<"2", "0">> -> " "
      [] <<x, y>> = <<"2", "3">> -> "#"
      [] <<x, y>> = <<"2", "5">> -> "%"
      [] <<x, y>> = <<"2", "6">> -> "&"
      [] <<x, y>> = <<"2", "B">> -> "+"
      [] <<x, y>> = <<"3", "A">> -> ":"
      [] <<x, y>> = <<"3", "D">> -> "="
      [] <<x, y>> = <<"3", "F">> -> "?"
      [] OTHER -> "<other>"

HexDigits == {"0", "2", "3", "5", "6", "A", "B", "D", "F"}

\* urllib.parse.unquote(text.replace("+", " ")), as parse_qs applies it
RECURSIVE unquote_plus(_)
unquote_plus(text) ==
    IF text = <<>> THEN <<>>
    ELSE IF /\ Head(text) = "%"
            /\ Len(text) >= 3
            /\ text[2] \in HexDigits
            /\ text[3] \in HexDigits
         THEN <<Unhex(text[2], text[3])>> \o unquote_plus(SubSeq(text, 4, Len(text)))
         ELSE <<IF Head(text) = "+" THEN " " ELSE Head(text)>> \o unquote_plus(Tail(text))

\* the position of the first sep in text, 0 when there is none
RECURSIVE IndexOf(_, _)
IndexOf(text, sep) ==
    IF text = <<>> THEN 0
    ELSE IF Head(text) = sep THEN 1
    ELSE LET rest == IndexOf(Tail(text), sep)
         IN IF rest = 0 THEN 0 ELSE 1 + rest

\* text.split(sep)
RECURSIVE Split(_, _)
Split(text, sep) ==
    LET at == IndexOf(text, sep)
    IN IF at = 0 THEN <<text>>
       ELSE <<SubSeq(text, 1, at - 1)>>
            \o Split(SubSeq(text, at + 1, Len(text)), sep)

\* sep.join(parts)
RECURSIVE Join(_, _)
Join(parts, sep) ==
    IF parts = <<>> THEN <<>>
    ELSE IF Len(parts) = 1 THEN parts[1]
    ELSE parts[1] \o <<sep>> \o Join(Tail(parts), sep)

\* params[key] = value on a dict kept in insertion order
DictSet(params, key, value) ==
    IF \E i \in 1..Len(params) : params[i][1] = key
    THEN [i \in 1..Len(params) |->
            IF params[i][1] = key THEN <<key, value>> ELSE params[i]]
    ELSE Append(params, <<key, value>>)

\* params.update(more)
RECURSIVE DictUpdate(_, _)
DictUpdate(params, more) ==
    IF more = <<>> THEN params
    ELSE DictUpdate(DictSet(params, Head(more)[1], Head(more)[2]), Tail(more))

\* sort_mapping.get(sort_by, "relevanceblender")
SortCode(sort_by) ==
    CASE sort_by = <<"relevance">> -> <<"relevanceblender">>
      [] sort_by = <<"price_low_high">> -> <<"price-asc-rank">>
      [] sort_by = <<"price_high_low">> -> <<"price-desc-rank">>
      [] sort_by = <<"newest">> -> <<"date-desc-rank">>
      [] sort_by = <<"featured">> -> <<"featured-rank">>
      [] OTHER -> <<"relevanceblender">>

\* the conditions of condition_mapping
Conditions == {<<"new">>, <<"used">>, <<"refurbished">>}

\* condition_mapping[condition]
ConditionCode(condition) ==
    CASE condition = <<"new">> -> <<"p_n_condition-type", ":", "2224371011">>
      [] condition = <<"used">> -> <<"p_n_condition-type", ":", "2224372011">>
      [] OTHER -> <<"p_n_condition-type", ":", "2224373011">>

\* f"p_89:{brand}"
BrandCode(brand) == <<"p_89", ":">> \o brand

\* _process_filters(filters): the parameters, in the order they are set
_process_filters(filters) ==
    LET p1 == IF filters.min_price # Absent
              THEN DictSet(<<>>, "low-price", filters.min_price) ELSE <<>>
        p2 == IF filters.max_price # Absent
              THEN DictSet(p1, "high-price", filters.max_price) ELSE p1
        p3 == IF filters.sort_by # Absent
              THEN DictSet(p2, "s", SortCode(filters.sort_by)) ELSE p2
        p4 == IF filters.category # Absent
              THEN DictSet(p3, "i", filters.category) ELSE p3
        p5 == IF filters.brand # Absent
              THEN DictSet(p4, "rh", BrandCode(filters.brand)) ELSE p4
        p6 == IF filters.condition # Absent /\ filters.condition \in Conditions
              THEN DictSet(p5, "rh", ConditionCode(filters.condition)) ELSE p5
    IN p6

\* urllib.parse.urlencode(params, quote_via=urllib.parse.quote)
urlencode(params) ==
    Join([i \in 1..Len(params) |->
            quote(<<params[i][1]>>) \o <<"=">> \o quote(params[i][2])], "&")

\* text.strip()
RECURSIVE StripText(_)
StripText(text) ==
    IF text = <<>> THEN text
    ELSE IF Head(text) = " " THEN StripText(Tail(text))
    ELSE IF text[Len(text)] = " " THEN StripText(SubSeq(text, 1, Len(text) - 1))
    ELSE text

\* base_url.rstrip("/")
RECURSIVE RStripSlash(_)
RStripSlash(text) ==
    IF text # <<>> /\ text[Len(text)] = "/"
    THEN RStripSlash(SubSeq(text, 1, Len(text) - 1))
    ELSE text

\* build_search_url raised ValidationError
UrlTextError == <<"<ValidationError>">>

\* whether **filters is an empty dict
NoFilters(filters) ==
    /\ filters.min_price = Absent /\ filters.max_price = Absent
    /\ filters.sort_by = Absent /\ filters.category = Absent
    /\ filters.brand = Absent /\ filters.condition = Absent

\* the parameters of the URL build_search_url builds
SearchParams(text, page_no, filters) ==
    LET params == <<<<"k", StripText(text)>>, <<"page", <<ToString(page_no)>>>>>>
    IN IF NoFilters(filters) THEN params
       ELSE DictUpdate(params, _process_filters(filters))

\* build_search_url(query, page, base_url, **filters), as text; the query
\* texts of the model are within validate_query's length limit and match
\* none of its patterns
build_search_url_text(text, page_no, base_url, filters) ==
    IF StripText(text) = <<>>
    THEN UrlTextError
    ELSE RStripSlash(base_url) \o <<"/s", "?">>
         \o urlencode(SearchParams(text, page_no, filters))

\* urllib.parse.urlparse(url).query: what follows the first "?", up to "#"
UrlQuery(url) ==
    LET at == IndexOf(url, "?")
    IN IF at = 0 THEN <<>>
       ELSE Split(SubSeq(url, at + 1, Len(url)), "#")[1]

\* one name=value field of a query string, unquoted; a field without "="
\* has an empty value
Field(part) ==
    LET at == IndexOf(part, "=")
    IN IF at = 0
       THEN <<unquote_plus(part), <<>>>>
       ELSE <<unquote_plus(SubSeq(part, 1, at - 1)),
              unquote_plus(SubSeq(part, at + 1, Len(part)))>>

\* urllib.parse.parse_qs(query): the fields with a non-blank value, in order
parse_qs(qs) ==
    LET parts == Split(qs, "&")
        fields == [i \in 1..Len(parts) |-> Field(parts[i])]
    IN SelectSeq(fields, LAMBDA f : f[2] # <<>>)

\* params[name] of a parse_qs result: the values of the name, in order
ValuesOf(fields, name) ==
    LET mine == SelectSeq(fields, LAMBDA f : f[1] = name)
    IN [i \in 1..Len(mine) |-> mine[i][2]]

\* extract_query_from_url returned None
NoQuery == <<"<None>">>

\* extract_query_from_url(url)
extract_query_from_url(url) ==
    LET params == parse_qs(UrlQuery(url))
    IN IF ValuesOf(params, <<"k">>) # <<>> THEN ValuesOf(params, <<"k">>)[1]
       ELSE IF ValuesOf(params, <<"keywords">>) # <<>>
            THEN ValuesOf(params, <<"keywords">>)[1]
       ELSE IF ValuesOf(params, <<"field-keywords">>) # <<>>
            THEN ValuesOf(params, <<"field-keywords">>)[1]
       ELSE NoQuery

\* **filters
Filters(lo, hi, sort_by, category, brand, condition) ==
    [min_price |-> lo, max_price |-> hi, sort_by |-> sort_by,
     category |-> category, brand |-> brand, condition |-> condition]

\* the arguments of a build_search_url call
UrlArgs(text, page_no, base_url, filters) ==
    [query |-> text, page |-> page_no, base_url |-> base_url, filters |-> filters]

\* no call, and nothing returned yet
NoUrlArgs ==
    UrlArgs(<<>>, 1, <<"https://www.amazon.com">>,
            Filters(Absent, Absent, Absent, Absent, Absent, Absent))

NotBuilt == <<"<nothing yet>">>

\* build_search_url(query, page, base_url, **filters) is called
BuildUrl ==
    /\ url_step = "idle"
    /\ url_out' = build_search_url_text(url_args.query, url_args.page,
                                         url_args.base_url, url_args.filters)
    /\ url_step' = "built"
    /\ UNCHANGED <<url_args, url_query>>
    /\ UNCHANGED <<runVars, parseVars, limVars, httpVars, rateVars, cacheVars,
                   entryVars, moreVars>>

\* extract_query_from_url is called with the URL that was built
ExtractQuery ==
    /\ url_step = "built"
    /\ url_out # UrlTextError
    /\ url_query' = extract_query_from_url(url_out)
    /\ url_step' = "extracted"
    /\ UNCHANGED <<url_args, url_out>>
    /\ UNCHANGED <<runVars, parseVars, limVars, httpVars, rateVars, cacheVars,
                   entryVars, moreVars>>

-----------------------------------------------------------------------------
(* __main__.py: the search command, and __init__.py: search_products *)

\* the CLI's search command up to its call of service.search_products:
\* validate_price_range first (line 97); a ValidationError is caught at
\* line 137, reported, and the command exits
CliSearch ==
    /\ entry = "cli"
    /\ pc = "validate"
    /\ IF validate_price_range(min_price, max_price)
       THEN /\ entry' = "cli_ok"
            /\ UNCHANGED <<pc, result>>
       ELSE /\ pc' = "done"
            /\ result' = [kind |-> "ValidationError", products |-> <<>>]
            /\ UNCHANGED entry
    /\ UNCHANGED <<rawQuery, query, pages, max_pages, has_storage, page,
                   all_products, seen_asins, metadata, served, saveFailed,
                   requestsSent, storageWrites, built>>
    /\ UNCHANGED <<min_price, max_price>>
    /\ UNCHANGED <<parseVars, limVars, httpVars, rateVars, cacheVars, urlVars, moreVars>>

\* SearchService.search_products is entered: straight away by the library's
\* search_products (__init__.py 33-41), after its checks by the CLI
EnterService ==
    /\ entry \in {"library", "cli_ok"}
    /\ Validate

-----------------------------------------------------------------------------
(* pipeline/storage.py: CSVStorage and JSONStorage on one output file, and
   the use search_products makes of them.  The file is the sequence of its
   rows: the header row of a CSV file, and one row per record. *)

\* self.file_path.exists() is false
NoFile == <<"<no file>">>

\* the row writer.writeheader() writes
Header == "<header>"

\* CSVStorage.__init__: self._header_written
CSV_init_header_written(append) == ~append

\* CSVStorage.save_batch(products): the file and the flag afterwards
CSV_save_batch(file, append, header_written, products) ==
    IF products = <<>>
    THEN [file |-> file, header_written |-> header_written]
    ELSE LET mode == IF append /\ file # NoFile THEN "a" ELSE "w"
             header == mode = "w" \/ (mode = "a" /\ ~header_written)
         IN [file |-> (IF mode = "a" THEN file ELSE <<>>)
                         \o (IF header THEN <<Header>> ELSE <<>>)
                         \o products,
             header_written |-> (header_written \/ header)]

\* JSONStorage.save_batch(products): the file afterwards
JSON_save_batch(file, products) ==
    IF products = <<>> THEN file ELSE products

\* the batch of k new records page number n of the file's history yields
Batch(n, k) == [i \in 1..k |-> "r" \o ToString(n) \o "." \o ToString(i)]

\* _get_storage(output_file) creates the backend of a run: JSONStorage with
\* append=False for a .json path, CSVStorage with append=True otherwise
GetStorage ==
    /\ st_runs < MaxRuns
    /\ st_runs' = st_runs + 1
    /\ st_append' = (st_type = "csv")
    /\ st_header_written' =
          IF st_type = "csv" THEN CSV_init_header_written(TRUE) ELSE FALSE
    /\ st_run' = <<>>
    /\ UNCHANGED <<st_file, st_type, st_saves>>
    /\ UNCHANGED <<runVars, parseVars, limVars, httpVars, rateVars, cacheVars,
                   entryVars, urlVars, confVars, raceVars>>

\* one page of the run (search_service.py 132-137): the page's unique
\* records are added to all_products and handed to storage.save_batch
SavePage ==
    /\ st_runs > 0
    /\ st_saves < MaxSaves
    /\ st_saves' = st_saves + 1
    /\ \E k \in 0..MaxBatch :
          LET unique_products == Batch(st_saves + 1, k)
              csv == CSV_save_batch(st_file, st_append, st_header_written,
                                    unique_products)
          IN /\ st_run' = st_run \o unique_products
             /\ st_file' = IF st_type = "csv" THEN csv.file
                           ELSE JSON_save_batch(st_file, unique_products)
             /\ st_header_written' = IF st_type = "csv" THEN csv.header_written
                                     ELSE st_header_written
    /\ UNCHANGED <<st_type, st_append, st_runs>>
    /\ UNCHANGED <<runVars, parseVars, limVars, httpVars, rateVars, cacheVars,
                   entryVars, urlVars, confVars, raceVars>>

-----------------------------------------------------------------------------
(* config/loader.py: load_config.  Two settings stand for the
   configuration, http.timeout and amazon.base_url, one per section; a
   section of a config is a dict object, and what matters of it is the
   setting it holds and whether it is the very dict of DEFAULT_CONFIG. *)

Sections == {"http", "amazon"}

\* DEFAULT_CONFIG as written in the module (lines 21-50)
BuiltInDefaults == [http |-> "15", amazon |-> "https://www.amazon.com"]

\* ENV_MAPPINGS: the section each variable overrides
ENV_MAPPINGS == [AMZ_HTTP_TIMEOUT |-> "http", AMZ_BASE_URL |-> "amazon"]

\* env_var not in os.environ
Unset == "<unset>"

\* the values a variable is set to; int("abc") raises ValueError
EnvValues(env_var) ==
    IF env_var = "AMZ_HTTP_TIMEOUT" THEN {"30", "abc"} ELSE {"https://www.amazon.de"}

\* type_func(value) raises nothing
Converts(env_var, value) == ~(env_var = "AMZ_HTTP_TIMEOUT" /\ value = "abc")

\* the config file has no such section, or a section without the setting
NoSection == "<no section>"
NoSetting == "<no setting>"

\* the settings a file gives to a section
FileSettings(section) ==
    IF section = "http" THEN {NoSection, NoSetting, "20"}
    ELSE {NoSection, NoSetting, "https://www.amazon.in"}

\* _merge_configs(DEFAULT_CONFIG, file_config): base.copy() is shallow, so
\* a section the file does not have is the dict of the base itself; a
\* section the file has is a new dict made by the inner call
_merge_configs(base, override) ==
    [s \in Sections |->
        IF override[s] = NoSection
        THEN [shared |-> TRUE, value |-> base[s]]
        ELSE [shared |-> FALSE,
              value |-> IF override[s] = NoSetting THEN base[s] ELSE override[s]]]

\* whether _apply_env_overrides assigns config[section][key] for env_var
Overrides(env, env_var) == env[env_var] # Unset /\ Converts(env_var, env[env_var])

\* _apply_env_overrides(config): config[section][key] = value for every
\* variable set; the config after it, and DEFAULT_CONFIG after it, whose
\* dict is written through a shared section
_apply_env_overrides(config, defaults, env) ==
    LET VarOf(s) == CHOOSE env_var \in DOMAIN ENV_MAPPINGS : ENV_MAPPINGS[env_var] = s
    IN [config |-> [s \in Sections |->
                      IF Overrides(env, VarOf(s))
                      THEN [config[s] EXCEPT !.value = env[VarOf(s)]]
                      ELSE config[s]],
        defaults |-> [s \in Sections |->
                        IF Overrides(env, VarOf(s)) /\ config[s].shared
                        THEN env[VarOf(s)]
                        ELSE defaults[s]]]

\* no config returned yet
NoConfig ==
    [loaded |-> FALSE, edited |-> FALSE,
     config |-> [s \in Sections |-> [shared |-> FALSE, value |-> "<none>"]],
     env |-> [env_var \in DOMAIN ENV_MAPPINGS |-> Unset]]

\* load_config() (lines 164-177)
LoadConfig ==
    /\ conf_calls < MaxLoads
    /\ conf_calls' = conf_calls + 1
    /\ LET merged == _merge_configs(DEFAULT_CONFIG, file_config)
           r == _apply_env_overrides(merged, DEFAULT_CONFIG, environ)
       IN /\ conf_ret' = [loaded |-> TRUE, edited |-> FALSE,
                          config |-> r.config, env |-> environ]
          /\ DEFAULT_CONFIG' = r.defaults
    /\ UNCHANGED <<environ, file_config>>
    /\ UNCHANGED <<runVars, parseVars, limVars, httpVars, rateVars, cacheVars,
                   entryVars, urlVars, storeVars, raceVars>>

\* the environment changes between calls
SetEnviron ==
    /\ conf_calls < MaxLoads
    /\ \E env_var \in DOMAIN ENV_MAPPINGS :
       \E value \in EnvValues(env_var) \cup {Unset} :
          /\ environ[env_var] # value
          /\ environ' = [environ EXCEPT ![env_var] = value]
    /\ UNCHANGED <<DEFAULT_CONFIG, file_config, conf_ret, conf_calls>>
    /\ UNCHANGED <<runVars, parseVars, limVars, httpVars, rateVars, cacheVars,
                   entryVars, urlVars, storeVars, raceVars>>

\* a caller assigns config[section][key] = value on the config it was given
CallerEdit ==
    /\ conf_ret.loaded
    /\ conf_calls < MaxLoads
    /\ \E s \in Sections :
          /\ conf_ret.config[s].value # "<edited>"
          /\ conf_ret' = [conf_ret EXCEPT !.edited = TRUE,
                                          !.config[s].value = "<edited>"]
          /\ DEFAULT_CONFIG' = IF conf_ret.config[s].shared
                               THEN [DEFAULT_CONFIG EXCEPT ![s] = "<edited>"]
                               ELSE DEFAULT_CONFIG
    /\ UNCHANGED <<environ, file_config, conf_calls>>
    /\ UNCHANGED <<runVars, parseVars, limVars, httpVars, rateVars, cacheVars,
                   entryVars, urlVars, storeVars, raceVars>>

-----------------------------------------------------------------------------
(* utils/cache.py: Cache.get and Cache.set of one key called by two threads,
   with no lock between them.  get is three steps, the exists() test (line
   51), the read and the TTL test (55-59), and the unlink (60 or 68); set
   is two, open(cache_file, "w"), which truncates the file (90), and
   json.dump (91). *)

\* the file just opened for writing: it exists and is empty
Truncated == [timestamp |-> -1, value |-> "<truncated>"]

\* the value the k-th set call writes
SetValue(k) == "v" \o ToString(k)

\* line 51: `if not cache_file.exists(): return None`
RaceGetBegin ==
    /\ rc_pc.getter = "idle"
    /\ rc_ops < MaxOps
    /\ rc_ops' = rc_ops + 1
    /\ IF rc_file = NoEntry
       THEN /\ rc_ret' = NoneVal
            /\ UNCHANGED rc_pc
       ELSE /\ rc_pc' = [rc_pc EXCEPT !.getter = "load"]
            /\ rc_ret' = "<running>"
    /\ UNCHANGED <<rc_file, rc_data, rc_pending, rc_orphan, rc_last, rc_written>>
    /\ UNCHANGED now
    /\ UNCHANGED <<runVars, parseVars, httpVars, rateVars, cacheVars,
                   entryVars, urlVars, storeVars, confVars>>
    /\ UNCHANGED <<tokens, last_refill, lock, lpc, call, wake, ret>>

\* lines 55-63: the file is read and its timestamp tested; a file that is
\* gone (OSError) or empty (JSONDecodeError) goes to the except branch
RaceGetLoad ==
    /\ rc_pc.getter = "load"
    /\ rc_data' = rc_file
    /\ IF rc_file \in {NoEntry, Truncated} \/ now - rc_file.timestamp > CacheTtl
       THEN /\ rc_pc' = [rc_pc EXCEPT !.getter = "unlink"]
            /\ UNCHANGED rc_ret
       ELSE /\ rc_pc' = [rc_pc EXCEPT !.getter = "idle"]
            /\ rc_ret' = rc_file.value
    /\ UNCHANGED <<rc_file, rc_pending, rc_orphan, rc_last, rc_written, rc_ops>>
    /\ UNCHANGED now
    /\ UNCHANGED <<runVars, parseVars, httpVars, rateVars, cacheVars,
                   entryVars, urlVars, storeVars, confVars>>
    /\ UNCHANGED <<tokens, last_refill, lock, lpc, call, wake, ret>>

\* line 60 or 68: cache_file.unlink(), then `return None`; a file that a
\* setter holds open lives on without its name
RaceGetUnlink ==
    /\ rc_pc.getter = "unlink"
    /\ rc_file' = NoEntry
    /\ rc_orphan' = (rc_orphan \/ (rc_pc.setter = "dump" /\ rc_file # NoEntry))
    /\ rc_pc' = [rc_pc EXCEPT !.getter = "idle"]
    /\ rc_ret' = NoneVal
    /\ UNCHANGED <<rc_data, rc_pending, rc_last, rc_written, rc_ops>>
    /\ UNCHANGED now
    /\ UNCHANGED <<runVars, parseVars, httpVars, rateVars, cacheVars,
                   entryVars, urlVars, storeVars, confVars>>
    /\ UNCHANGED <<tokens, last_refill, lock, lpc, call, wake, ret>>

\* lines 84-90: the entry is built with time.time() and the file opened
\* with mode "w"
RaceSetOpen ==
    /\ rc_pc.setter = "idle"
    /\ rc_ops < MaxOps
    /\ rc_ops' = rc_ops + 1
    /\ rc_pending' = Entry(now, SetValue(rc_ops + 1))
    /\ rc_file' = Truncated
    /\ rc_orphan' = FALSE
    /\ rc_pc' = [rc_pc EXCEPT !.setter = "dump"]
    /\ UNCHANGED <<rc_data, rc_ret, rc_last, rc_written>>
    /\ UNCHANGED now
    /\ UNCHANGED <<runVars, parseVars, httpVars, rateVars, cacheVars,
                   entryVars, urlVars, storeVars, confVars>>
    /\ UNCHANGED <<tokens, last_refill, lock, lpc, call, wake, ret>>

\* line 91: json.dump(data, f), and the file is closed
RaceSetDump ==
    /\ rc_pc.setter = "dump"
    /\ rc_file' = IF rc_orphan THEN rc_file ELSE rc_pending
    /\ rc_last' = rc_pending
    /\ rc_written' = rc_written \cup {rc_pending.value}
    /\ rc_pc' = [rc_pc EXCEPT !.setter = "idle"]
    /\ UNCHANGED <<rc_data, rc_ret, rc_pending, rc_orphan, rc_ops>>
    /\ UNCHANGED now
    /\ UNCHANGED <<runVars, parseVars, httpVars, rateVars, cacheVars,
                   entryVars, urlVars, storeVars, confVars>>
    /\ UNCHANGED <<tokens, last_refill, lock, lpc, call, wake, ret>>

-----------------------------------------------------------------------------
(* Specifications *)

InitParse ==
    /\ html_in = <<>>
    /\ items_in = <<>>
    /\ parse_out = <<>>
    /\ models_out = [ok |-> TRUE, products |-> <<>>]
    /\ parse_step = "idle"

InitLimiter ==
    /\ now = 0
    /\ tokens = Capacity
    /\ last_refill = 0
    /\ lock = Free
    /\ lpc = [t \in Threads |-> "idle"]
    /\ call = [t \in Threads |-> [op |-> "acquire", n |-> 1]]
    /\ wake = [t \in Threads |-> 0]
    /\ ret = [t \in Threads |-> "none"]

InitHttp ==
    /\ hpc = "idle"
    /\ method = "GET"
    /\ retries_left = 0
    /\ response = NoResponse
    /\ wireRequests = 0
    /\ tokensTaken = 0
    /\ callsMade = 0
    /\ req_url = "u1"
    /\ last_reply = NoReply

InitRate ==
    /\ granted = 0
    /\ mark = [at |-> 0, granted |-> 0, last_refill |-> 0]


\* the cache directory holds, for each url, nothing or a file written at
\* time 0; the two cache_enabled settings are whatever they are
InitCacheWith(Files, Flags) ==
    /\ cache_files \in Files
    /\ cfg_cache_enabled \in Flags
    /\ self_cache_enabled \in Flags
    /\ gpc = "idle"
    /\ get_call = [url |-> "u1", params |-> NoneVal, use_cache |-> NoneVal]
    /\ get_ret = NoGet
    /\ get_trace = NoTrace
    /\ lookup = NoLookup

\* the arguments of the build_search_url call
InitUrlWith(Args) ==
    /\ url_args \in Args
    /\ url_out = NotBuilt
    /\ url_query = NotBuilt
    /\ url_step = "idle"

\* the entry point and the price filters of the run
InitEntryWith(Entries, Prices) ==
    /\ entry \in Entries
    /\ min_price \in Prices
    /\ max_price \in Prices

\* the output file does not exist or is empty, and no backend is created
InitStoreWith(Types) ==
    /\ st_file \in {NoFile, <<>>}
    /\ st_type \in Types
    /\ st_append = FALSE
    /\ st_header_written = FALSE
    /\ st_run = <<>>
    /\ st_saves = 0
    /\ st_runs = 0

\* the module as imported, the environment without AMZ_* variables
InitConfWith(Files) ==
    /\ DEFAULT_CONFIG = BuiltInDefaults
    /\ environ = [env_var \in DOMAIN ENV_MAPPINGS |-> Unset]
    /\ file_config \in Files
    /\ conf_ret = NoConfig
    /\ conf_calls = 0

\* the key's file as the race starts, and nobody in a call
InitRaceWith(Files) ==
    /\ rc_file \in Files
    /\ rc_pc = [getter |-> "idle", setter |-> "idle"]
    /\ rc_data = NoEntry
    /\ rc_ret = NoneVal
    /\ rc_pending = NoEntry
    /\ rc_orphan = FALSE
    /\ rc_last = NoEntry
    /\ rc_written = {}
    /\ rc_ops = 0

InitMore ==
    /\ InitRaceWith({NoEntry})
    /\ InitStoreWith({"csv"}) /\ st_file = NoFile
    /\ InitConfWith({[s \in Sections |-> NoSection]})

InitExt ==
    /\ InitRate
    /\ InitMore
    /\ InitCacheWith({[u \in Urls |-> NoEntry]}, {FALSE})
    /\ InitEntryWith({"library"}, {NoPrice})
    /\ InitUrlWith({NoUrlArgs})

InitRunWith(Qs, Ps, Ms) ==
    /\ pc = "validate"
    /\ rawQuery \in Qs
    /\ query = rawQuery
    /\ pages \in Ps
    /\ max_pages \in Ms
    /\ has_storage \in BOOLEAN
    /\ page = 0
    /\ all_products = <<>>
    /\ seen_asins = {}
    /\ metadata = NoMetadata
    /\ result = Pending
    /\ served = <<>>
    /\ saveFailed = FALSE
    /\ requestsSent = 0
    /\ storageWrites = 0
    /\ built = UrlError

\* a run that is not made
NoRun == InitRunWith({EmptyQuery}, {0}, {NoMax}) /\ has_storage = FALSE

\* one run of search_products
Init ==
    InitRunWith(RunQueries, 0..MaxPages, {NoMax}) /\ InitParse /\ InitLimiter /\ InitHttp /\ InitExt

Next == Validate \/ SearchPage \/ Finalize

Spec == Init /\ [][Next]_vars

\* the validation gate over every query shape, for runs of up to two pages
InitValidate ==
    InitRunWith(Queries, 0..2, {NoMax, 1}) /\ InitParse /\ InitLimiter /\ InitHttp /\ InitExt

NextValidate == Validate \/ BuildSearchUrl \/ SearchPage \/ Finalize

SpecValidate == InitValidate /\ [][NextValidate]_vars

\* the parser
InitParser == NoRun /\ InitParse /\ InitLimiter /\ InitHttp /\ InitExt

NextParse == ParseSearch \/ PromoteParsed \/ ToProductModels

SpecParse == InitParser /\ [][NextParse]_vars

-----------------------------------------------------------------------------
(* Properties of a run *)

\* the records a served page holds: none when the fetch or the parse failed
PageRecords(outcome) ==
    IF outcome.kind = "ok"
    THEN to_product_models(parse_search(outcome.html)).products
    ELSE <<>>

\* the records of all pages served so far, in page order
ServedRecords == Flatten([p \in 1..Len(served) |-> PageRecords(served[p])])

\* the subsequence of s made of each identifier's first occurrence
FirstOccurrences(s) ==
    LET keep == {i \in 1..Len(s) :
                    \A j \in 1..(i-1) : s[j].asin_code # s[i].asin_code}
        nth(k) == CHOOSE i \in keep : Cardinality({j \in keep : j <= i}) = k
    IN [k \in 1..Cardinality(keep) |-> s[nth(k)]]

Identifiers(s) == {s[i].asin_code : i \in 1..Len(s)}

\* C1: the records gathered by a run never hold two records with the same
\* identifier; they are, in page order, the first occurrence of each
\* identifier among the records of the pages served, every later record of
\* an identifier already seen being dropped; and they are what is returned.
C1_NoDuplicatesFirstKept ==
    /\ \A i, j \in 1..Len(all_products) :
          i # j => all_products[i].asin_code # all_products[j].asin_code
    /\ all_products = FirstOccurrences(ServedRecords)
    /\ result.kind = "List[Product]" => result.products = all_products

\* a finished run that was served an identifier twice on one page and again
\* on a later page
C1_Witness ==
    /\ pc = "done"
    /\ result.kind = "List[Product]"
    /\ Len(result.products) = 2
    /\ \E p \in 1..Len(served) :
          /\ Len(PageRecords(served[p])) = 2
          /\ Cardinality(Identifiers(PageRecords(served[p]))) = 1
    /\ Len(ServedRecords) >= 4

\* C2: when save_batch raised StorageError during the run, the call ends by
\* raising StorageError to its caller.
C2_StorageErrorPropagates ==
    (pc = "done" /\ saveFailed) => result.kind = "StorageError"

\* C3: a page that fails to fetch or parse does not abort the run: every
\* page 1..pages is processed, the records returned are the deduplicated
\* records of the pages that succeeded, and pages_scraped is the requested
\* number of pages.
C3_PartialFailureContinues ==
    (pc = "done" /\ result.kind # "ValidationError") =>
        /\ Len(served) = pages
        /\ result.kind = "List[Product]"
        /\ result.products = FirstOccurrences(ServedRecords)
        /\ metadata.built
        /\ metadata.pages_scraped = pages

\* page 2 of 3 raised FetchError, pages 1 and 3 gave the two records returned
C3_Witness ==
    /\ pc = "done"
    /\ pages = 3
    /\ [i \in 1..Len(served) |-> served[i].kind] = <<"ok", "FetchError", "ok">>
    /\ [i \in 1..Len(served) |-> Len(PageRecords(served[i]))] = <<1, 0, 1>>
    /\ Len(result.products) = 2

\* the number of records a page yielded, one per identifier of the page
PageCount(outcome) == Cardinality(Identifiers(PageRecords(outcome)))

\* C9: the metadata's total_results is the sum over the pages of the number
\* of records each page yielded before cross-page deduplication, and its
\* unique_products is the size of the seen-identifier set.
C9_TotalResultsIsRawSum ==
    metadata.built =>
        /\ metadata.total_results =
              SumSeq([p \in 1..Len(served) |-> PageCount(served[p])])
        /\ metadata.unique_products = Cardinality(seen_asins)

\* C10: a run that passes validation hands its caller the records together
\* with the metadata, whose unique count is the number of distinct
\* identifiers among the records returned.
C10_ReturnsRecordsAndMetadata ==
    (pc = "done" /\ result.kind # "ValidationError") =>
        /\ result.kind = "SearchResult"
        /\ metadata.unique_products = Cardinality(Identifiers(result.products))

-----------------------------------------------------------------------------
(* Properties of the validation gate *)

\* the query is empty, whitespace only or matches the denylist
BadQueryText(q) ==
    \/ QueryLen(q) = 0
    \/ q.core = 0
    \/ MatchesDangerous(q)

\* the pages argument is below 1 or above the configured maximum
BadPages == pages < 1 \/ (max_pages # NoMax /\ pages > max_pages)

\* no I/O has happened and the call either has not started or has raised
RejectedBeforeIO ==
    /\ requestsSent = 0
    /\ storageWrites = 0
    /\ served = <<>>
    /\ pc \in {"validate", "done"}
    /\ pc = "done" => result.kind = "ValidationError"

\* the gate, for a given reading of "the query is too long"
ValidationGate(tooLong) ==
    /\ (BadQueryText(rawQuery) \/ tooLong \/ BadPages) => RejectedBeforeIO
    /\ (BadQueryText(rawQuery) \/ tooLong) => ~built.ok
    /\ ~(BadQueryText(rawQuery) \/ tooLong) =>
          /\ (pc = "done" /\ ~BadPages) => result.kind # "ValidationError"
          /\ pc = "loop" => query = Strip(rawQuery)
          /\ built.ok => built.k = Strip(rawQuery)

-----------------------------------------------------------------------------
(* Properties of the parser *)

\* the items of a batch that have every required field, promoted
RECURSIVE PromoteValid(_)
PromoteValid(items) ==
    IF items = <<>> THEN <<>>
    ELSE IF MissingRequired(Head(items)) THEN PromoteValid(Tail(items))
    ELSE <<Product(Head(items))>> \o PromoteValid(Tail(items))

\* C7: to_product_models fails per item: the valid maps of a batch that also
\* holds a map lacking a required field are still promoted to records.
C7_FailsPerItem ==
    parse_step = "promoted" => models_out.products = PromoteValid(items_in)

\* C8: no Product is built from a field-map whose title, url, asin_code or
\* image_url is missing or empty: every record that to_product_models
\* yields, from parse_search's maps or from any batch, has the four fields
\* non-empty and comes from a map that has them.
C8_RequiredFields ==
    /\ \A i \in 1..Len(parse_out) : ~MissingRequired(parse_out[i])
    /\ \A i \in 1..Len(models_out.products) :
          LET product == models_out.products[i] IN
          /\ Truthy(product.title) /\ Truthy(product.url)
          /\ Truthy(product.asin_code) /\ Truthy(product.image_url)
          /\ \E k \in 1..Len(items_in) :
                ~MissingRequired(items_in[k]) /\ product = Product(items_in[k])

\* a batch holding a map without a required field was handed to
\* to_product_models, and no record came of it
C8_Witness ==
    /\ parse_step = "promoted"
    /\ \E i \in 1..Len(items_in) : MissingRequired(items_in[i])
    /\ \E i \in 1..Len(items_in) : ~MissingRequired(items_in[i])
    /\ models_out.products = <<>>

-----------------------------------------------------------------------------
(* The limiter under concurrent callers, and the HTTP client *)

InitIdle == NoRun /\ InitParse /\ InitLimiter /\ InitHttp /\ InitExt

NextLimiter == Begin \/ Refill \/ Check \/ Deficit \/ Wake \/ Tick

SpecLimiter == InitIdle /\ [][NextLimiter]_vars

NextHttp == HttpCall \/ HttpLimiter \/ HttpWaited \/ HttpSend \/ Tick

SpecHttp == InitIdle /\ [][NextHttp]_vars

\* C4: in every state of the limiter, whatever calls of acquire, wait and
\* get_wait_time its callers have interleaved, 0 <= tokens <= capacity.
C4_TokensWithinBounds == 0 <= tokens /\ tokens <= Capacity

\* both callers are inside wait, the bucket was emptied and has been
\* refilled to its capacity since
C4_Witness ==
    /\ tokens = Capacity
    /\ last_refill > 0
    /\ \E t \in Threads : ret[t] = "returned" /\ call[t].n = BurstCapacity
    /\ \E t \in Threads : lpc[t] = "check" /\ call[t].op = "wait"

\* C5: at all times the number of requests sent on the wire is at most the
\* number of tokens consumed from the bucket.
C5_EveryRequestHasItsToken == wireRequests <= tokensTaken

\* C11: a wait(n) call with 1 <= n <= capacity ends by returning, having
\* subtracted its n tokens; it never ends in an error, whatever the other
\* callers of the limiter do meanwhile.
C11_WaitNeverFails ==
    \A t \in Threads :
        (call[t].op = "wait" /\ call[t].n <= BurstCapacity /\ lpc[t] = "idle")
            => ret[t] = "returned"

\* C12: wait(n) with n > capacity raises RateLimitExceeded at once: the
\* caller never enters the loop or sleeps, and the step in which the call
\* is made leaves tokens and last_refill as they were.
C12_OverCapacityFailsAtOnce ==
    /\ [](\A t \in Threads :
            (call[t].op = "wait" /\ call[t].n > BurstCapacity)
                => (lpc[t] = "idle" /\ wake[t] = 0 /\ lock # t
                    /\ ret[t] = "RateLimitExceeded"))
    /\ [][\A t \in Threads :
            (/\ <<call[t], ret[t]>> # <<call'[t], ret'[t]>>
             /\ call'[t].op = "wait"
             /\ call'[t].n > BurstCapacity)
                => (tokens' = tokens /\ last_refill' = last_refill)]_vars

\* a caller asked wait for more than the burst while the bucket was not
\* full and a refill was due; the call raised and the bucket is as it was
C12_Witness ==
    \E t \in Threads :
        /\ call[t].op = "wait"
        /\ call[t].n > BurstCapacity
        /\ ret[t] = "RateLimitExceeded"
        /\ tokens < Capacity
        /\ last_refill < now

-----------------------------------------------------------------------------
(* Rate compliance: callers asking for one token each, the tokens granted
   counted, and a moment marked to measure an interval from *)

\* a thread calls wait(1) or acquire(1)
RateBegin ==
    /\ \E t \in Threads, op \in {"wait", "acquire"} : LimBegin(t, op, 1)
    /\ UNCHANGED <<runVars, parseVars, httpVars, extVars>>

\* the check of acquire / wait, counting the tokens it takes from the bucket
Grant ==
    /\ \E t \in Threads : LimCheck(t)
    /\ granted' = granted + (tokens - tokens') \div TokenUnit
    /\ UNCHANGED mark
    /\ UNCHANGED <<runVars, parseVars, httpVars, cacheVars, entryVars, urlVars, moreVars>>

\* an observer starts measuring now
Mark ==
    /\ mark # [at |-> now, granted |-> granted, last_refill |-> last_refill]
    /\ mark' = [at |-> now, granted |-> granted, last_refill |-> last_refill]
    /\ UNCHANGED granted
    /\ UNCHANGED <<runVars, parseVars, limVars, httpVars, cacheVars, entryVars, urlVars, moreVars>>

NextRate == RateBegin \/ Refill \/ Grant \/ Deficit \/ Wake \/ Tick \/ Mark

SpecRate == InitIdle /\ [][NextRate]_vars

\* the tokens granted since the mark are at most the burst plus what the
\* bucket gains in the time that has passed since `since`
GrantedWithin(since) ==
    (granted - mark.granted) * TokenUnit <= Capacity + (now - since)

-----------------------------------------------------------------------------
(* The cache and HttpClient.get *)

\* Cache.get and Cache.set called directly, over a directory that holds
\* files written at time 0
InitCache ==
    /\ NoRun /\ InitParse /\ InitLimiter /\ InitHttp /\ InitRate /\ InitMore
    /\ InitEntryWith({"library"}, {NoPrice})
    /\ InitUrlWith({NoUrlArgs})
    /\ InitCacheWith([Urls -> {NoEntry, Entry(0, "old html")}], {FALSE})

NextCache == CacheGet \/ CacheSet \/ Tick

SpecCache == InitCache /\ [][NextCache]_vars

\* HttpClient.get under every setting of the two cache_enabled flags
InitGet ==
    /\ NoRun /\ InitParse /\ InitLimiter /\ InitHttp /\ InitRate /\ InitMore
    /\ InitEntryWith({"library"}, {NoPrice})
    /\ InitUrlWith({NoUrlArgs})
    /\ InitCacheWith([Urls -> {NoEntry, Entry(0, "old html")}], BOOLEAN)

NextGet == Get \/ GetRequest \/ Tick

SpecGet == InitGet /\ [][NextGet]_vars

\* caching is in effect for the get call: use_cache is true, or it is unset
\* and the client's flag is true
CachingInEffect ==
    \/ get_call.use_cache = "True"
    \/ get_call.use_cache = NoneVal /\ self_cache_enabled

\* the entry exists and is not older than the TTL at time t
Fresh(e, t) == e # NoEntry /\ t - e.timestamp <= CacheTtl

\* C14: caching is in effect for a get exactly when use_cache is true, or
\* unset with the client's cache_enabled true.  When in effect, a fresh
\* entry for the url is returned without a request and without a token, and
\* on a miss the text of a successful response is stored under the url; when
\* not in effect the cache is neither read nor written; a failed request
\* never populates the cache.
C14_CacheGating ==
    gpc = "done" =>
        IF CachingInEffect
        THEN /\ Fresh(get_trace.before, get_trace.at) =>
                    /\ get_ret = [kind |-> "text", text |-> get_trace.before.value]
                    /\ get_trace.requests = 0
                    /\ get_trace.tokens = 0
             /\ (~Fresh(get_trace.before, get_trace.at) /\ get_ret.kind = "text") =>
                    /\ get_trace.wrote
                    /\ get_trace.after.value = get_ret.text
             /\ get_ret.kind = "FetchError" => ~get_trace.wrote
        ELSE /\ ~get_trace.read
             /\ ~get_trace.wrote
             /\ get_trace.after = get_trace.before

\* C15: Cache.get(key) never returns a value older than the TTL: such a
\* lookup is a miss and leaves no entry for the key, while an entry not
\* older than the TTL is returned unchanged and left in place.
C15_NoStaleValue ==
    IF lookup.before = NoEntry
    THEN lookup.value = NoneVal /\ lookup.after = NoEntry
    ELSE IF lookup.at - lookup.before.timestamp > CacheTtl
         THEN lookup.value = NoneVal /\ lookup.after = NoEntry
         ELSE lookup.value = lookup.before.value /\ lookup.after = lookup.before

\* an entry that Cache.set wrote after time 0 was looked up one tick past
\* its TTL: a miss, and the file is gone
C15_Witness ==
    /\ lookup.before # NoEntry
    /\ lookup.before.timestamp > 0
    /\ lookup.at - lookup.before.timestamp = CacheTtl + 1
    /\ lookup.value = NoneVal
    /\ cache_files[lookup.key] = NoEntry

-----------------------------------------------------------------------------
(* Errors of the HTTP client *)

\* C16: a response with a 4xx/5xx status outside the forcelist is not
\* retried, the call ends with it, and it surfaces as a FetchError whose
\* status_code is the response's status and whose url is the requested url.
C16_ErrorStatusSurfaces ==
    (/\ last_reply.err = "none"
     /\ last_reply.status >= 400
     /\ last_reply.status \notin StatusForcelist)
        => /\ hpc = "done"
           /\ response.kind = "FetchError"
           /\ response.status_code = last_reply.status
           /\ response.url = req_url

-----------------------------------------------------------------------------
(* The entry points of a run *)

\* the prices a caller passes
RunPrices == {NoPrice, -1, 1, 2}

InitEntry ==
    /\ InitRunWith({PaddedQuery}, 1..2, {NoMax})
    /\ InitParse /\ InitLimiter /\ InitHttp /\ InitRate /\ InitMore
    /\ InitCacheWith({[u \in Urls |-> NoEntry]}, {FALSE})
    /\ InitEntryWith({"library", "cli"}, RunPrices)
    /\ InitUrlWith({NoUrlArgs})

NextEntry == CliSearch \/ EnterService \/ SearchPage \/ Finalize

SpecEntry == InitEntry /\ [][NextEntry]_vars

\* the price range of the run is invalid
InvalidPriceRange ==
    \/ min_price # NoPrice /\ min_price < 0
    \/ max_price # NoPrice /\ max_price < 0
    \/ min_price # NoPrice /\ max_price # NoPrice /\ min_price > max_price

\* C17: a run whose price range is invalid is rejected with ValidationError
\* before any HTTP request or storage write, on every entry point.
C17_PriceRangeGate == InvalidPriceRange => RejectedBeforeIO

-----------------------------------------------------------------------------
(* The URL builder *)

\* the characters of the query texts: a letter, the space, and characters
\* with a meaning in a query string
QueryChars == {"a", " ", "&", "=", "+", "%"}

QueryTexts == SeqsUpTo(QueryChars, MaxText)

\* the filter sets: every combination of brand and condition, with and
\* without the price, sort and category filters
FilterSets ==
    {Filters(ps[1], ps[2], ps[3], ps[4], brand, condition) :
        ps \in {<<Absent, Absent, Absent, Absent>>,
                <<<<"1">>, <<"2">>, <<"newest">>, <<"a">>>>},
        brand \in {Absent, <<"a">>, <<"&">>},
        condition \in {Absent, <<"new">>, <<"used">>, <<"refurbished">>, <<"mint">>}}

BaseUrls == {<<"https://www.amazon.com">>, <<"https://www.amazon.com", "/">>}

InitUrl ==
    /\ NoRun /\ InitParse /\ InitLimiter /\ InitHttp /\ InitRate /\ InitMore
    /\ InitCacheWith({[u \in Urls |-> NoEntry]}, {FALSE})
    /\ InitEntryWith({"library"}, {NoPrice})
    /\ InitUrlWith({UrlArgs(text, page_no, base_url, filters) :
                        text \in QueryTexts, page_no \in 1..2,
                        base_url \in BaseUrls, filters \in FilterSets})

NextUrl == BuildUrl \/ ExtractQuery

SpecUrl == InitUrl /\ [][NextUrl]_vars

\* the fields of the query string of the URL that was built
BuiltFields == parse_qs(UrlQuery(url_out))

\* the built URL carries name=value
Carries(name, value) ==
    \E i \in 1..Len(BuiltFields) : BuiltFields[i] = <<<<name>>, value>>

\* C18: each supplied filter is reflected in the built URL through its
\* mapped parameter, whichever other filters are supplied: brand as
\* rh=p_89:<brand>, a recognized condition as its rh code, also when both
\* are supplied; an unrecognized condition adds no parameter and raises no
\* error.
C18_FiltersReflected ==
    (url_step # "idle" /\ url_out # UrlTextError) =>
        LET f == url_args.filters
        IN /\ f.min_price # Absent => Carries("low-price", f.min_price)
           /\ f.max_price # Absent => Carries("high-price", f.max_price)
           /\ f.sort_by # Absent => Carries("s", SortCode(f.sort_by))
           /\ f.category # Absent => Carries("i", f.category)
           /\ f.brand # Absent => Carries("rh", BrandCode(f.brand))
           /\ f.condition \in Conditions => Carries("rh", ConditionCode(f.condition))
           /\ (f.condition \notin Conditions /\ f.brand = Absent) =>
                  ValuesOf(BuiltFields, <<"rh">>) = <<>>

\* C19: for every accepted query, every page and every filter set,
\* extract_query_from_url(build_search_url(query, page, base_url, **filters))
\* is the query stripped of surrounding whitespace.
C19_UrlRoundTrip ==
    url_step = "extracted" => url_query = StripText(url_args.query)

\* a query padded with a space and holding "&" went through a URL with
\* filters, one of them holding "&" too, and came back stripped
C19_Witness ==
    /\ url_step = "extracted"
    /\ url_args.query = <<" ", "&">>
    /\ url_args.filters.brand = <<"&">>
    /\ url_args.filters.category # Absent
    /\ url_query = <<"&">>

\* every page of the run was served the content html
SamePageServed(html) ==
    /\ pc = "done"
    /\ result.kind = "List[Product]"
    /\ pages >= 1
    /\ served = [p \in 1..pages |-> Outcome("ok", html)]

\* the records of the content have pairwise distinct identifiers
DistinctIdentifiers(records) == Cardinality(Identifiers(records)) = Len(records)

\* C20: when every page of a run is served the same content and the
\* content's records have pairwise distinct identifiers, unique_products
\* and the number of records returned are the number of records of one
\* page, for every number of pages from 1 up.
C20_SamePageCountsOnce ==
    \A html \in RunHtmls :
       LET one == PageRecords(Outcome("ok", html))
       IN (SamePageServed(html) /\ DistinctIdentifiers(one)) =>
             /\ metadata.unique_products = Len(one)
             /\ Len(result.products) = Len(one)

\* three pages, each served the same two records with different identifiers
C20_Witness ==
    \E html \in RunHtmls :
       LET one == PageRecords(Outcome("ok", html))
       IN /\ SamePageServed(html)
          /\ pages = 3
          /\ Len(one) = 2
          /\ DistinctIdentifiers(one)
          /\ Len(result.products) = 2

\* C23: every read and write of tokens and last_refill by acquire, wait and
\* get_wait_time is made by a thread that holds the limiter's lock: a
\* thread whose next step is the refill, the check or the computation of
\* the deficit holds it.
C23_StateAccessUnderLock ==
    \A t \in Threads : lpc[t] \in {"refill", "check", "deficit"} => lock = t

\* C29: the token value wait() uses for its deficit is one under which the
\* attempt failed: when the deficit is computed it is positive, and so is
\* the sleep.
C29_DeficitPositive ==
    \A t \in Threads :
       lpc[t] = "deficit" => call[t].n * TokenUnit - tokens > 0

-----------------------------------------------------------------------------
(* The output file *)

InitStore ==
    /\ NoRun /\ InitParse /\ InitLimiter /\ InitHttp /\ InitRate
    /\ InitCacheWith({[u \in Urls |-> NoEntry]}, {FALSE})
    /\ InitEntryWith({"library"}, {NoPrice})
    /\ InitUrlWith({NoUrlArgs})
    /\ InitStoreWith({"csv", "json"})
    /\ InitConfWith({[s \in Sections |-> NoSection]})
    /\ InitRaceWith({NoEntry})

NextStore == GetStorage \/ SavePage

SpecStore == InitStore /\ [][NextStore]_vars

\* the header rows of the file
HeaderRows == SelectSeq(st_file, LAMBDA row : row = Header)

\* C21: a CSV file written in append mode, by one CSVStorage or by several
\* created one after the other for the same file, holds exactly one header
\* row, and it is the first row.
C21_OneHeaderFirst ==
    (st_type = "csv" /\ st_file \notin {NoFile, <<>>}) =>
        /\ HeaderRows = <<Header>>
        /\ SubSeq(st_file, 1, 1) = <<Header>>

\* C28: the output file of a run holds every record the run has returned,
\* from every page.
C28_FileHoldsAllRecords ==
    st_runs > 0 =>
        \A i \in 1..Len(st_run) : \E j \in 1..Len(st_file) : st_file[j] = st_run[i]

-----------------------------------------------------------------------------
(* The configuration *)

InitConf ==
    /\ NoRun /\ InitParse /\ InitLimiter /\ InitHttp /\ InitRate
    /\ InitCacheWith({[u \in Urls |-> NoEntry]}, {FALSE})
    /\ InitEntryWith({"library"}, {NoPrice})
    /\ InitUrlWith({NoUrlArgs})
    /\ InitStoreWith({"csv"}) /\ st_file = NoFile
    /\ InitRaceWith({NoEntry})
    /\ InitConfWith({[http |-> h, amazon |-> a] :
                        h \in FileSettings("http"), a \in FileSettings("amazon")})

NextConf == LoadConfig \/ SetEnviron \/ CallerEdit

SpecConf == InitConf /\ [][NextConf]_vars

\* the setting of a section by precedence: the built-in default, then the
\* file, then the environment
BySettingPrecedence(s, file, env) ==
    LET env_var == CHOOSE v \in DOMAIN ENV_MAPPINGS : ENV_MAPPINGS[v] = s
    IN IF Overrides(env, env_var) THEN env[env_var]
       ELSE IF file[s] \in {NoSection, NoSetting} THEN BuiltInDefaults[s]
       ELSE file[s]

\* C22: what load_config returns is determined by the built-in defaults,
\* the config file and the environment at the time of the call, by the
\* precedence defaults, file, environment, whatever calls were made before
\* and whatever callers did to the configs they were given; and
\* DEFAULT_CONFIG is never modified.
C22_ConfigFromDefaultsFileEnv ==
    /\ DEFAULT_CONFIG = BuiltInDefaults
    /\ (conf_ret.loaded /\ ~conf_ret.edited) =>
          \A s \in Sections :
             conf_ret.config[s].value = BySettingPrecedence(s, file_config, conf_ret.env)

-----------------------------------------------------------------------------
(* The cache under concurrent get and set *)

\* the file does not exist, or holds an entry written at time 0
InitRace ==
    /\ NoRun /\ InitParse /\ InitLimiter /\ InitHttp /\ InitRate
    /\ InitCacheWith({[u \in Urls |-> NoEntry]}, {FALSE})
    /\ InitEntryWith({"library"}, {NoPrice})
    /\ InitUrlWith({NoUrlArgs})
    /\ InitStoreWith({"csv"}) /\ st_file = NoFile
    /\ InitConfWith({[s \in Sections |-> NoSection]})
    /\ InitRaceWith({NoEntry, Entry(0, "v0")})

NextRace ==
    RaceGetBegin \/ RaceGetLoad \/ RaceGetUnlink \/ RaceSetOpen \/ RaceSetDump \/ Tick

SpecRace == InitRace /\ [][NextRace]_vars

\* every get and set call has completed
RaceQuiet == rc_pc.getter = "idle" /\ rc_pc.setter = "idle"

\* C24: once all concurrent Cache.get and Cache.set calls on a key have
\* completed, a lookup within the TTL of the last completed set finds the
\* entry that set wrote: no get has deleted or hidden it; and no get
\* returns a value that no set wrote.
C24_LastWriterWins ==
    /\ (RaceQuiet /\ rc_last # NoEntry /\ now - rc_last.timestamp <= CacheTtl) =>
          rc_file = rc_last
    /\ rc_ret \in {NoneVal, "<running>", "v0"} \cup rc_written

-----------------------------------------------------------------------------
(* The cache key of HttpClient.get *)

\* an empty cache, caching enabled in the configuration and in the client
InitKey ==
    /\ NoRun /\ InitParse /\ InitLimiter /\ InitHttp /\ InitRate /\ InitMore
    /\ InitEntryWith({"library"}, {NoPrice})
    /\ InitUrlWith({NoUrlArgs})
    /\ InitCacheWith({[u \in Urls |-> NoEntry]}, {TRUE})

NextKey == Get \/ GetRequest \/ Tick

SpecKey == InitKey /\ [][NextKey]_vars

\* C30: the text HttpClient.get returns, from the cache or from the
\* network, is the content of the request it was called for: calls with the
\* same url and different params never get each other's cached response.
C30_HitIsForSameRequest ==
    (gpc = "done" /\ get_ret.kind = "text") =>
        get_ret.text = ServerText(get_call.url, get_call.params)

-----------------------------------------------------------------------------
(* Properties of the parser's field extraction *)

\* the value of the first strategy, in list order, that yields a non-empty
\* value; NoneVal when none does
FirstNonEmpty(values) ==
    LET yields(i) == values[i] # NoMatch /\ Truthy(values[i])
    IN IF \E i \in 1..Len(values) : yields(i)
       THEN values[CHOOSE i \in 1..Len(values) :
                      yields(i) /\ \A j \in 1..(i-1) : ~yields(j)]
       ELSE NoneVal

\* the field-map of a container when each fallback list gives its first
\* non-empty value
ByFirstNonEmpty(element) ==
    FieldMap(FirstNonEmpty(element.titles), _extract_url(element),
             _extract_asin(element), FirstNonEmpty(element.images))

\* the maps of the containers none of whose required fields fails in every
\* strategy, in order
RECURSIVE KeptByFirstNonEmpty(_)
KeptByFirstNonEmpty(html) ==
    IF html = <<>> THEN <<>>
    ELSE LET m == ByFirstNonEmpty(Head(html)) IN
         IF Truthy(m.title) /\ Truthy(m.url) /\ Truthy(m.asin_code) /\ Truthy(m.image_url)
         THEN <<m>> \o KeptByFirstNonEmpty(Tail(html))
         ELSE KeptByFirstNonEmpty(Tail(html))

\* C26: each field with a list of fallback strategies gets the value of the
\* first strategy that yields a non-empty value, a strategy that matches an
\* element with an empty value being passed over; a container is discarded
\* only when every strategy of a required field fails, and the containers
\* after a discarded one are still processed.
C26_FirstNonEmptyStrategyWins ==
    parse_step = "parsed" => parse_out = KeptByFirstNonEmpty(html_in)

\* the URLs with a scheme and a host among the values of the model
AbsoluteUrls ==
    AbsoluteHrefs
    \cup {BaseUrl \o path : path \in {"/dp/A", "/dp/B"}}
    \cup {"https://m.media-amazon.com/images/I/1.jpg"}

\* C27: the url and the image_url of every field-map parse_search returns
\* are absolute: a relative path found in the markup has been resolved
\* against the parser's base URL.
C27_UrlFieldsAbsolute ==
    parse_step = "parsed" =>
        \A i \in 1..Len(parse_out) :
            /\ parse_out[i].url \in AbsoluteUrls
            /\ parse_out[i].image_url \in AbsoluteUrls

-----------------------------------------------------------------------------
(* The course of a run *)

\* a run whose every step is eventually taken: the loop is a for loop over
\* range(1, pages + 1) and each of its steps returns or raises
SpecRun == Init /\ [][Next]_vars /\ WF_vars(Next)

\* where a run stands: nothing requested before Validate has passed; in the
\* loop at page p, pages 1..p-1 have been requested once each, in this
\* order, and processed; after Finalize all of 1..pages have
PagesInOrder ==
    /\ pc = "validate" => (served = <<>> /\ requestsSent = 0)
    /\ pc = "loop" =>
          /\ page \in 1..(pages + 1)
          /\ Len(served) = page - 1
          /\ requestsSent = page - 1
          /\ page > 1 => (built.ok /\ built.page = page - 1)
    /\ (pc = "done" /\ result.kind = "ValidationError") => requestsSent = 0
    /\ (pc = "done" /\ result.kind # "ValidationError") =>
          /\ Len(served) = pages
          /\ requestsSent = pages
          /\ page = pages + 1
          /\ metadata.built

\* C25: a validated run without storage failure goes through Validate,
\* then one iteration per page for pages 1, 2, ..., pages in increasing
\* order, each page requested once and only after the page before it has
\* been processed, and then reaches Finalize, whichever pages fail to fetch
\* or parse.
C25_ValidateLoopFinalize ==
    /\ [](~saveFailed => PagesInOrder)
    /\ <>(pc = "done")

\* a finished run of three pages of which the first failed to fetch and
\* the third to parse
C25_Witness ==
    /\ pc = "done"
    /\ ~saveFailed
    /\ pages = 3
    /\ requestsSent = 3
    /\ [i \in 1..Len(served) |-> served[i].kind] = <<"FetchError", "ok", "ParseError">>
    /\ metadata.built

=============================================================================
